---- MODULE Spec2Model ----
(***************************************************************************)
(* A model of the tapmap crawl engine (backend/crawler/engine.py) and of   *)
(* the collaborators it drives: the robots.txt check, the Playwright       *)
(* browser, context and page, and the frontier loop.                       *)
(*                                                                         *)
(* URLs are sequences of tokens.  The first token is the part up to the    *)
(* end of the network location ("https://a.com"); the others are "/",      *)
(* path segments, "#" and fragment text, so that urldefrag, endswith("/")  *)
(* and rstrip("/") act on the token sequence as they act on the string.    *)
(*                                                                         *)
(* Every `await` of the engine is a step of its own, because the           *)
(* crawl-wide timeout (asyncio.wait_for) cancels the loop at an await.     *)
(* A Playwright page counts as open from the moment context.new_page()     *)
(* returns it and as closed from the moment page.close() is called.        *)
(*                                                                         *)
(* Spec is the crawl.  LibSpec calls the functions around it on their own  *)
(* (check_robots_txt, handle_consent, detect_tag_context, the validators   *)
(* of ScanConfig, detect_analytics): one call per behaviour, recorded in   *)
(* the variable `call`.                                                    *)
(***************************************************************************)
EXTENDS Integers, Sequences, FiniteSets, TLC

\* ------------------------------------------------------------------ bounds
\* the largest number of hrefs one page offers
MaxLinks == 2
\* the largest max_pages a client asks for
MaxPagesIn == 3
\* the largest max_depth a client asks for
MaxDepthIn == 1

\* Optional[str] = None
NONE == "None"

\* ------------------------------------------------------------ URL universe
Origin == "https://a.com"
OtherOrigin == "https://b.org"
\* a.href of an anchor whose href does not parse: the attribute, unchanged
BadOrigin == "http://["

SeedUrl == <<Origin, "/">>

Hrefs ==
    { <<Origin, "/", "p", "/">>,
      <<Origin, "/", "p", "#", "f">>,
      <<Origin, "/", "q">>,
      <<Origin, "/">>,
      <<BadOrigin>> }

\* the href lists a page may offer, in document order
LinkLists == UNION { [1..n -> Hrefs] : n \in 0..MaxLinks }

\* ------------------------------------------------------ urllib.parse, models
\* urlsplit raises ValueError(ExceptionMessage) on an unbalanced bracket
urlparse_raises(url) == Len(url) > 0 /\ url[1] = BadOrigin

scheme_of(url) ==
    IF Len(url) = 0 THEN ""
    ELSE CASE url[1] = Origin -> "https"
           [] url[1] = OtherOrigin -> "https"
           [] url[1] = "http://a.com" -> "http"
           [] url[1] = "mailto:x@a.com" -> "mailto"
           [] OTHER -> ""

netloc_of(url) ==
    IF Len(url) = 0 THEN ""
    ELSE CASE url[1] = Origin -> "a.com"
           [] url[1] = "http://a.com" -> "a.com"
           [] url[1] = OtherOrigin -> "b.org"
           [] OTHER -> ""

\* index of the first "#" token, 0 when there is none
FragmentAt(url) ==
    IF \E i \in 1..Len(url) : url[i] = "#"
    THEN CHOOSE i \in 1..Len(url) : url[i] = "#" /\ \A j \in 1..(i-1) : url[j] # "#"
    ELSE 0

\* urldefrag(url)[0]
urldefrag(url) ==
    IF FragmentAt(url) = 0 THEN url ELSE SubSeq(url, 1, FragmentAt(url) - 1)

\* the path component of urlparse(url)
path_of(url) ==
    LET u == urldefrag(url) IN
    IF Len(u) <= 1 \/ scheme_of(u) = "mailto" THEN <<>> ELSE SubSeq(u, 2, Len(u))

\* str.rstrip("/")
RECURSIVE rstrip_slash(_)
rstrip_slash(url) ==
    IF Len(url) > 0 /\ url[Len(url)] = "/"
    THEN rstrip_slash(SubSeq(url, 1, Len(url) - 1))
    ELSE url

\* urldefrag parses the URL only when it holds a "#"
normalize_raises(url) == FragmentAt(url) # 0 /\ urlparse_raises(url)

\* C3 mutant: the trailing slash is kept
normalize_url_keeps_slash(url) == urldefrag(url)

\* CrawlEngine._normalize_url
normalize_url(url) ==
    LET u == urldefrag(url) IN
    IF Len(u) > 0 /\ u[Len(u)] = "/" THEN rstrip_slash(u) ELSE u

base_domain == netloc_of(SeedUrl)

\* CrawlEngine._is_same_domain
is_same_domain(url) == netloc_of(url) = base_domain

skip_extensions ==
    { ".pdf", ".jpg", ".jpeg", ".png", ".gif", ".svg", ".webp",
      ".mp4", ".mp3", ".wav", ".avi", ".mov",
      ".zip", ".tar", ".gz", ".rar",
      ".doc", ".docx", ".xls", ".xlsx", ".ppt", ".pptx",
      ".css", ".js", ".json", ".xml", ".ico" }

\* str.lower() on the tokens the model uses
lower(tok) ==
    CASE tok = ".PDF" -> ".pdf"
      [] tok = "TEXT/HTML" -> "text/html"
      [] tok = "View" -> "view"
      [] tok = "Important" -> "important"
      [] tok = "Safety" -> "safety"
      [] tok = "Information" -> "information"
      [] tok = "Sign" -> "sign"
      [] tok = "Read" -> "read"
      [] tok = "Boxed" -> "boxed"
      [] tok = "Warning" -> "warning"
      [] tok = "Click" -> "click"
      [] tok = "Cookie" -> "cookie"
      [] tok = "Policy" -> "policy"
      [] OTHER -> tok

\* C26 mutant: the extension of the path is not looked at
is_crawlable_any_path(url) ==
    /\ scheme_of(url) \in {"http", "https"}
    /\ is_same_domain(url)

\* CrawlEngine._is_crawlable (raises when urlparse raises)
is_crawlable(url) ==
    /\ scheme_of(url) \in {"http", "https"}
    /\ is_same_domain(url)
    /\ LET p == path_of(url) IN
       ~ (Len(p) > 0 /\ lower(p[Len(p)]) \in skip_extensions)


\* ------------------------------------------------------------------- state
VARIABLES
    config,           \* ScanConfig: url, max_pages, max_depth (validated)
    progress,         \* CrawlProgress: pages_scanned, total_pages_found, current_url, status
    visited,          \* CrawlEngine.visited
    pages,            \* CrawlEngine.pages
    queue,            \* CrawlEngine.queue, a FIFO of <<url, depth>>
    consent_result,   \* CrawlEngine.consent_result: <<>> (None) or <<the ConsentResult>>
    total_elements,   \* CrawlEngine.total_elements
    consent_handled,  \* local of _crawl_loop
    pc,               \* the await the crawl is suspended at
    robots,           \* local of crawl(): the RobotsResult
    playwright,       \* the driver started by `async with async_playwright()`
    browser,          \* "none", "open", "closed"
    context,          \* "none", "open", "closed"
    page,             \* local of _visit_page: "none", "open", "closed"
    visit,            \* locals of the running _visit_page call
    unwinding,        \* what leaves _visit_page's try block: "none", "return", "cancel"
    result,           \* <<>> or <<the PageResult being returned>>
    exc,              \* the exception propagating out of crawl(), NONE if none
    timed_out,        \* the deadline of asyncio.wait_for has fired
    returned,         \* <<>> or <<the list crawl() returned>>
    calls,            \* history: how often each collaborator was called
    added,            \* history: per PageResult, the frontier entries its visit added
    first_load,       \* history: the number of the first visit whose response passed
                      \* the screening of engine.py 199-228, 0 while there is none
    call,             \* the last call of a library function: its inputs and its answer
    engines,          \* two CrawlEngine instances crawling side by side: the
                      \* attributes of each and the locals of each crawl() task
    enqueued,         \* history: every <<url, depth>> ever put on CrawlEngine.queue
    classify          \* api/classify.py: _running_tasks, the tasks created, the requests
                      \* past their await, and the last response

vars == << config, progress, visited, pages, queue, consent_result, total_elements,
           consent_handled, pc, robots, playwright, browser, context, page, visit,
           unwinding, result, exc, timed_out, returned, calls, added, first_load,
           call, engines, enqueued, classify >>

\* --------------------------------------------------------------- ScanConfig
max2(a, b) == IF a >= b THEN a ELSE b
min2(a, b) == IF a <= b THEN a ELSE b

\* C19 mutant: max_pages is capped, not floored
clamp_max_pages_unfloored(v) == min2(v, 1000)

\* ScanConfig.clamp_max_pages
clamp_max_pages(v) == max2(1, min2(v, 1000))

\* ScanConfig.clamp_max_depth
clamp_max_depth(v) == max2(1, min2(v, 20))

\* ------------------------------------------------------------- PageResult
PageResult(url, title, status_code, depth, elements, error) ==
    [ url |-> url, title |-> title, status_code |-> status_code,
      depth |-> depth, elements |-> elements, error |-> error ]

\* Optional[int]: {} is None
NoStatus == {}

NoVisit == [ url |-> <<>>, depth |-> 0, handle_consent_banner |-> FALSE,
             status_code |-> NoStatus, title |-> "", elements |-> <<>>, added |-> 0,
             screened |-> "", ran |-> {} ]

\* ---------------------------------------------------------- check_robots_txt
\* what the GET of /robots.txt gives: a request error, or a status with the
\* Disallow prefixes that apply to the configured user agent
RobotsFetches ==
    { [ kind |-> "request_error", status_code |-> 0, disallow |-> {} ],
      [ kind |-> "response", status_code |-> 404, disallow |-> {} ],
      [ kind |-> "response", status_code |-> 500, disallow |-> {} ],
      [ kind |-> "response", status_code |-> 403, disallow |-> {<<"/">>} ],
      [ kind |-> "response", status_code |-> 200, disallow |-> {} ],
      [ kind |-> "response", status_code |-> 200, disallow |-> {<<"/", "private">>} ],
      [ kind |-> "response", status_code |-> 200, disallow |-> {<<"/">>} ] }

IsPrefix(p, s) == Len(p) <= Len(s) /\ SubSeq(s, 1, Len(p)) = p

\* RobotExclusionRulesParser.is_allowed for the configured user agent
is_allowed(disallow, path) == ~ \E d \in disallow : IsPrefix(d, path)

\* C11 mutant: the body is parsed whatever the status of the response
check_robots_txt_any_status(fetch, path) ==
    IF fetch.kind = "request_error" THEN [ found |-> FALSE, allowed |-> TRUE ]
    ELSE IF fetch.status_code = 404 THEN [ found |-> FALSE, allowed |-> TRUE ]
    ELSE [ found |-> TRUE, allowed |-> is_allowed(fetch.disallow, path) ]

\* check_robots_txt(base_url, path)
check_robots_txt(fetch, path) ==
    IF fetch.kind = "request_error" THEN [ found |-> FALSE, allowed |-> TRUE ]
    ELSE IF fetch.status_code = 404 THEN [ found |-> FALSE, allowed |-> TRUE ]
    ELSE IF fetch.status_code # 200 THEN [ found |-> FALSE, allowed |-> TRUE ]
    ELSE [ found |-> TRUE, allowed |-> is_allowed(fetch.disallow, path) ]

\* the default of check_robots_txt's parameter `path`
DefaultRobotsPath == <<"/">>

\* engine.py 89: `robots = await check_robots_txt(self.config.url)`; the URL
\* gives the host of robots.txt, the path asked about is the default
crawl_robots(url, fetch) == check_robots_txt(fetch, DefaultRobotsPath)

NoRobots == [ found |-> FALSE, allowed |-> FALSE ]

\* -------------------------------------------------------------------- Init
\* no library function has been called
NoCall == [ fn |-> "none" ]

NoCalls == [ check_robots_txt |-> 0, launch |-> 0, new_context |-> 0,
             new_page |-> 0, close_page |-> 0, handle_consent |-> 0, sleep |-> 0 ]

\* ------------------------------------------------------- two CrawlEngines
\* Two engines are created for the same ScanConfig and their crawl() tasks
\* run on one event loop.  Each task is cut at the awaits between which it
\* touches the attributes of `self`; the site answers every request alike.
Engines == {1, 2}

\* C24 mutant: the attributes live on the class, one object for every instance
self_shared(e) == 1

\* engine.py 24-33: __init__ binds fresh objects to the instance it is given
self_of(e) == e

\* engine.py 27-33
NewEngine == [ visited |-> {}, pages |-> <<>>, queue |-> <<>>, status |-> "running",
               consent_result |-> <<>> ]

\* the locals of crawl(), _crawl_loop and _visit_page of one task
NewTask == [ pc |-> "crawl", consent_handled |-> FALSE, url |-> <<>>, depth |-> 0 ]

NoEngines == [ self |-> [ e \in Engines |-> NewEngine ],
               task |-> [ e \in Engines |-> NewTask ] ]

\* the scans a classification can be asked for
ScanIds == {"s1", "s2"}

\* no task (an absent key of _running_tasks, a response that created none)
NoTask == <<>>

\* no response sent yet
NoResponse == [ status |-> "none", scan_id |-> "", task |-> NoTask ]

\* classify.py 93: `_running_tasks = {}` when the module is imported; no task
\* exists and no request is in flight
NoClassify ==
    [ running_tasks |-> [ s \in ScanIds |-> NoTask ],
      tasks |-> <<>>,
      requests |-> {},
      response |-> NoResponse ]

Init ==
    /\ config \in { [ url |-> SeedUrl, max_pages |-> clamp_max_pages(mp),
                      max_depth |-> clamp_max_depth(md) ] :
                    mp \in 0..MaxPagesIn, md \in 0..MaxDepthIn }
    /\ progress = [ pages_scanned |-> 0, total_pages_found |-> 0,
                    current_url |-> <<>>, status |-> "running" ]
    /\ visited = {}
    /\ pages = <<>>
    /\ queue = <<>>
    /\ consent_result = <<>>
    /\ total_elements = 0
    /\ consent_handled = FALSE
    /\ pc = "crawl"
    /\ robots = NoRobots
    /\ playwright = "none"
    /\ browser = "none"
    /\ context = "none"
    /\ page = "none"
    /\ visit = NoVisit
    /\ unwinding = "none"
    /\ result = <<>>
    /\ exc = NONE
    /\ timed_out = FALSE
    /\ returned = <<>>
    /\ calls = NoCalls
    /\ added = <<>>
    /\ first_load = 0
    /\ call = NoCall
    /\ engines = NoEngines
    /\ enqueued = {}
    /\ classify = NoClassify

Called(name) == [ calls EXCEPT ![name] = @ + 1 ]

EngineUnchanged == UNCHANGED << config, visited, pages, queue, consent_result,
                                total_elements, consent_handled, added, first_load,
                                call, engines, enqueued, classify >>


\* ------------------------------------------------------------ crawl(), setup
\* C10 mutant: a disallowing robots.txt is not acted on
RobotsBlocksNever(r) == FALSE

\* engine.py 95
RobotsBlocks(r) == ~ r.allowed

\* C28 mutant: the seed enters the frontier one level down
seed_entry_one_down(url) == << normalize_url(url), 1 >>

\* engine.py 101-102: the frontier entry of the start URL
seed_entry(url) == << normalize_url(url), 0 >>

\* engine.py 89-102: the robots check, the blocked return, the seeding.
\* queue.put on an unbounded queue does not suspend, so the three are one step.
CheckRobots ==
    /\ pc = "crawl"
    /\ \E fetch \in RobotsFetches :
         LET r == crawl_robots(config.url, fetch) IN
         /\ robots' = r
         /\ calls' = Called("check_robots_txt")
         /\ IF RobotsBlocks(r)
            THEN /\ progress' = [ progress EXCEPT !.status = "blocked_by_robots" ]
                 /\ returned' = << <<>> >>
                 /\ pc' = "done"
                 /\ UNCHANGED << queue, enqueued >>
            ELSE /\ queue' = Append(queue, seed_entry(config.url))
                 /\ enqueued' = enqueued \cup { seed_entry(config.url) }
                 /\ pc' = "start_playwright"
                 /\ UNCHANGED << progress, returned >>
    /\ UNCHANGED << config, visited, pages, consent_result, total_elements,
                    consent_handled, playwright, browser, context, page, visit,
                    unwinding, result, exc, timed_out, added, first_load, call,
                    engines, classify >>

\* engine.py 104: `async with async_playwright() as p`
StartPlaywright ==
    /\ pc = "start_playwright"
    /\ playwright' = "started"
    /\ pc' = "launch"
    /\ EngineUnchanged
    /\ UNCHANGED << progress, robots, browser, context, page, visit, unwinding,
                    result, exc, timed_out, returned, calls >>

\* engine.py 105: p.chromium.launch returns the browser
Launch ==
    /\ pc = "launch"
    /\ browser' = "open"
    /\ calls' = Called("launch")
    /\ pc' = "new_context"
    /\ EngineUnchanged
    /\ UNCHANGED << progress, robots, playwright, context, page, visit, unwinding,
                    result, exc, timed_out, returned >>

\* engine.py 105: p.chromium.launch raises; the exception leaves the `async with`
LaunchRaises ==
    /\ pc = "launch"
    /\ calls' = Called("launch")
    /\ exc' = "launch failed"
    /\ pc' = "stop_playwright"
    /\ EngineUnchanged
    /\ UNCHANGED << progress, robots, playwright, browser, context, page, visit,
                    unwinding, result, timed_out, returned >>

\* engine.py 106-109: browser.new_context returns the context
NewContext ==
    /\ pc = "new_context"
    /\ context' = "open"
    /\ calls' = Called("new_context")
    /\ pc' = "loop"
    /\ EngineUnchanged
    /\ UNCHANGED << progress, robots, playwright, browser, page, visit, unwinding,
                    result, exc, timed_out, returned >>

\* engine.py 106-109: browser.new_context raises, before the try of line 111
NewContextRaises ==
    /\ pc = "new_context"
    /\ calls' = Called("new_context")
    /\ exc' = "new_context failed"
    /\ pc' = "stop_playwright"
    /\ EngineUnchanged
    /\ UNCHANGED << progress, robots, playwright, browser, context, page, visit,
                    unwinding, result, timed_out, returned >>

\* ------------------------------------------------------------- _crawl_loop
\* C2 mutant: the depth limit is read one too high
max_depth_off_by_one == config.max_depth + 1

\* self.config.max_depth, as the loop and the visitor read it
max_depth == config.max_depth

\* C1 mutant: the cap is tested with > instead of >=
page_cap_off_by_one == Len(pages) > config.max_pages

\* engine.py 141
page_cap_reached == Len(pages) >= config.max_pages

\* engine.py 149
already_visited(normalized) == normalized \in visited

\* engine.py 153
too_deep(depth) == depth > max_depth

\* C13 mutant: every visit is told to handle the consent banner
handle_consent_banner_always == TRUE

\* engine.py 162: the argument handle_consent_banner of _visit_page
handle_consent_banner == ~ consent_handled

\* C14 mutant: the loop never marks consent as handled
consent_handled_never == FALSE

\* engine.py 170-171: consent_handled once a visit has returned, whatever
\* its PageResult
consent_handled_after_visit == TRUE

\* engine.py 139-163: from the loop head to the call of _visit_page.  The queue
\* is not empty when get() is called, so get() does not suspend.
LoopStep ==
    /\ pc = "loop"
    /\ IF queue = <<>> \/ page_cap_reached
       THEN \* the loop ends and wait_for returns
            /\ pc' = "close_context"
            /\ UNCHANGED << queue, visited, progress, visit >>
       ELSE LET url == Head(queue)[1]
                depth == Head(queue)[2]
                normalized == normalize_url(url)
            IN  /\ queue' = Tail(queue)
                /\ IF already_visited(normalized) \/ too_deep(depth)
                   THEN /\ pc' = "loop"
                        /\ UNCHANGED << visited, progress, visit >>
                   ELSE /\ visited' = visited \cup {normalized}
                        /\ progress' = [ progress EXCEPT !.current_url = normalized ]
                        /\ visit' = [ NoVisit EXCEPT !.url = normalized, !.depth = depth,
                                        !.handle_consent_banner = handle_consent_banner ]
                        /\ pc' = "new_page"
    /\ UNCHANGED << config, pages, consent_result, total_elements, consent_handled,
                    robots, playwright, browser, context, page, unwinding, result,
                    exc, timed_out, returned, calls, added, first_load, call, engines, enqueued, classify >>

\* engine.py 184: asyncio.sleep(delay) is over
Sleep ==
    /\ pc = "sleep"
    /\ pc' = "loop"
    /\ calls' = Called("sleep")
    /\ EngineUnchanged
    /\ UNCHANGED << progress, robots, playwright, browser, context, page, visit,
                    unwinding, result, exc, timed_out, returned >>


\* -------------------------------------------------------------- _visit_page
\* what page.goto may answer
StatusCodes == {200, 404}
ContentTypes == {"", "text/html", "TEXT/HTML", "application/xhtml+xml",
                 "application/pdf"}

\* the content types of ContentTypes that hold "html" once in lower case
HtmlContentTypes == {"text/html", "application/xhtml+xml"}
OffDomainUrl == <<OtherOrigin, "/">>

\* what page.title(), extract_elements and handle_consent may answer
Titles == {"Home"}
ElementLists == { <<>>, <<"link">> }
ConsentResults ==
    { [ detected |-> FALSE, action |-> "none" ],
      [ detected |-> TRUE, action |-> "accept_all" ] }

\* engine.py 205
is_error_status(status_code) == status_code >= 400

\* the PageResults of the early returns and of the except clause: no title,
\* no elements
ErrorResult(url, depth, status_code, error) ==
    PageResult(url, NONE, status_code, depth, <<>>, error)

HttpError(status_code) ==
    CASE status_code = 404 -> "HTTP 404"
      [] OTHER -> "HTTP"

\* C7 mutant: the page is closed on a return only, not on a cancellation
finally_page_on_return_only(how) == IF how = "return" THEN "closed" ELSE "open"

\* C23 mutant: the finally clause leaves the page open
finally_page_left_open(how) == "open"

\* engine.py 278-279: the page once the try block is left, whatever leaves it
\* (a return, an exception the except clause turned into a return, a
\* CancelledError): page.close() has been called
finally_page(how) == "closed"

\* leaving the try block of _visit_page: the finally clause calls page.close()
\* and the visit is suspended in it
LeaveTry(how, r) ==
    /\ page' = finally_page(how)
    /\ calls' = Called("close_page")
    /\ unwinding' = how
    /\ result' = r
    /\ pc' = "closing"

\* engine.py 191: context.new_page() returns the page
NewPage ==
    /\ pc = "new_page"
    /\ page' = "open"
    /\ calls' = Called("new_page")
    /\ pc' = "goto"
    /\ EngineUnchanged
    /\ UNCHANGED << progress, robots, playwright, browser, context, visit, unwinding,
                    result, exc, timed_out, returned >>

\* engine.py 191: context.new_page() raises, outside the try of line 192; the
\* exception leaves _visit_page, _crawl_loop and wait_for, and the finally of
\* line 119 runs
NewPageRaises ==
    /\ pc = "new_page"
    /\ calls' = Called("new_page")
    /\ exc' = "new_page failed"
    /\ pc' = "close_context"
    /\ EngineUnchanged
    /\ UNCHANGED << progress, robots, playwright, browser, context, page, visit,
                    unwinding, result, timed_out, returned >>

\* C30 mutant: the content type is compared as it is written
mentions_html_as_written(content_type) == content_type = "text/html"

\* engine.py 223: "html" in content_type.lower()
mentions_html(content_type) == lower(content_type) \in HtmlContentTypes

\* C29 mutant: the final URL is not looked at
screen_response_any_domain(status_code, content_type, final_url) ==
    IF is_error_status(status_code) THEN "http_error"
    ELSE IF content_type # "" /\ ~ mentions_html(content_type) THEN "non_html"
    ELSE "pass"

\* engine.py 202-228: the tests a response goes through, in their order
screen_response(status_code, content_type, final_url) ==
    IF is_error_status(status_code) THEN "http_error"
    ELSE IF ~ is_same_domain(final_url) THEN "off_domain"
    ELSE IF content_type # "" /\ ~ mentions_html(content_type) THEN "non_html"
    ELSE "pass"

\* engine.py 218: f"Redirected off-domain to {final_url}"
RedirectError(final_url) ==
    CASE final_url = OffDomainUrl -> "Redirected off-domain to https://b.org/"
      [] OTHER -> "Redirected off-domain to"

\* engine.py 227: f"Non-HTML content: {content_type}"
NonHtmlError(content_type) ==
    CASE content_type = "application/pdf" -> "Non-HTML content: application/pdf"
      [] OTHER -> "Non-HTML content:"

\* engine.py 207-228: the error of the early return a screening outcome leads to
screening_error(outcome, status_code, content_type, final_url) ==
    CASE outcome = "http_error" -> HttpError(status_code)
      [] outcome = "off_domain" -> RedirectError(final_url)
      [] OTHER -> NonHtmlError(content_type)

\* engine.py 193-228: page.goto answers, and the response is screened
Goto ==
    /\ pc = "goto"
    /\ \/ \* no response
          /\ LeaveTry("return", << ErrorResult(visit.url, visit.depth, NoStatus,
                                                "No response") >>)
          /\ visit' = [ visit EXCEPT !.screened = "no_response" ]
       \/ \E status_code \in StatusCodes, content_type \in ContentTypes,
             final_url \in {visit.url, OffDomainUrl} :
            LET outcome == screen_response(status_code, content_type, final_url) IN
            IF outcome = "pass"
            THEN /\ visit' = [ visit EXCEPT !.status_code = {status_code},
                                            !.screened = outcome ]
                 /\ pc' = "settle"
                 /\ UNCHANGED << page, calls, unwinding, result >>
            ELSE /\ LeaveTry("return", << ErrorResult(visit.url, visit.depth, {status_code},
                                 screening_error(outcome, status_code, content_type,
                                                 final_url)) >>)
                 /\ visit' = [ visit EXCEPT !.screened = outcome ]
    /\ first_load' = IF pc' = "settle" /\ first_load = 0
                     THEN Len(pages) + 1 ELSE first_load
    /\ UNCHANGED << config, visited, pages, queue, consent_result, total_elements,
                    consent_handled, added, call, engines, enqueued, classify >>
    /\ UNCHANGED << progress, robots, playwright, browser, context, exc, timed_out,
                    returned >>

\* engine.py 271-277: an exception raised in the try block at the await the
\* visit is suspended at becomes an error PageResult
ExceptionMessage == "Error"

\* the awaits of the try block that may raise: page.goto, page.title,
\* handle_consent, _extract_links.  (wait_for_load_state is wrapped in its own
\* try, extract_elements catches what page.evaluate raises.)
RaisingStages == {"goto", "title", "consent", "links"}

StageRaises ==
    /\ pc \in RaisingStages
    /\ LeaveTry("return", << ErrorResult(visit.url, visit.depth, NoStatus,
                                          ExceptionMessage) >>)
    /\ EngineUnchanged
    /\ UNCHANGED << progress, robots, playwright, browser, context, visit, exc,
                    timed_out, returned >>

\* engine.py 231-234: networkidle is reached, or the wait times out and the
\* exception is dropped
Settle ==
    /\ pc = "settle"
    /\ \E idle \in BOOLEAN : pc' = "title"
    /\ EngineUnchanged
    /\ UNCHANGED << progress, robots, playwright, browser, context, page, visit,
                    unwinding, result, exc, timed_out, returned, calls >>

\* engine.py 236
Title ==
    /\ pc = "title"
    /\ \E t \in Titles : visit' = [ visit EXCEPT !.title = t ]
    /\ pc' = IF visit.handle_consent_banner THEN "consent" ELSE "extract"
    /\ EngineUnchanged
    /\ UNCHANGED << progress, robots, playwright, browser, context, page, unwinding,
                    result, exc, timed_out, returned, calls >>

\* engine.py 239-247
HandleConsent ==
    /\ pc = "consent"
    /\ \E r \in ConsentResults : consent_result' = << r >>
    /\ calls' = Called("handle_consent")
    /\ visit' = [ visit EXCEPT !.ran = @ \cup {"handle_consent"} ]
    /\ pc' = "extract"
    /\ UNCHANGED << config, visited, pages, queue, total_elements, consent_handled,
                    added, progress, robots, playwright, browser, context, page,
                    unwinding, result, exc, timed_out, returned, first_load,
                    call, engines, enqueued, classify >>

\* engine.py 263-269
OkResult(v) ==
    PageResult(v.url, IF v.title # "" THEN v.title ELSE NONE,
               v.status_code, v.depth, v.elements, NONE)

\* C27 mutant: links are collected at the depth limit too
collects_links_at_limit(depth) == depth <= max_depth

\* engine.py 253
collects_links(depth) == depth < max_depth

\* engine.py 250-253, 263: extract_elements answers (an empty list when the page
\* evaluation failed); at the depth limit the visit returns
Extract ==
    /\ pc = "extract"
    /\ \E els \in ElementLists :
         LET v == [ visit EXCEPT !.elements = els, !.ran = @ \cup {"extract_elements"} ] IN
         /\ visit' = v
         /\ IF collects_links(visit.depth)
            THEN /\ pc' = "links"
                 /\ UNCHANGED << page, calls, unwinding, result >>
            ELSE LeaveTry("return", << OkResult(v) >>)
    /\ EngineUnchanged
    /\ UNCHANGED << progress, robots, playwright, browser, context, exc, timed_out,
                    returned >>

\* engine.py 255-261: the for loop over the links, up to the link whose
\* parsing raises.  queue.put does not suspend.
RECURSIVE enqueue_links_from(_, _, _, _, _)
enqueue_links_from(seen, links, depth, q, n) ==
    IF links = <<>> THEN [ queue |-> q, added |-> n, raised |-> FALSE ]
    ELSE LET link == Head(links) IN
         IF normalize_raises(link)
         THEN [ queue |-> q, added |-> n, raised |-> TRUE ]
         ELSE LET norm == normalize_url(link) IN
              IF norm \in seen THEN enqueue_links_from(seen, Tail(links), depth, q, n)
              ELSE IF urlparse_raises(norm)
              THEN [ queue |-> q, added |-> n, raised |-> TRUE ]
              ELSE IF is_crawlable(norm)
              THEN enqueue_links_from(seen, Tail(links), depth,
                                      Append(q, << norm, depth + 1 >>), n + 1)
              ELSE enqueue_links_from(seen, Tail(links), depth, q, n)

\* the loop run by the crawl of Spec, on its own visited set
enqueue_links(links, depth, q, n) == enqueue_links_from(visited, links, depth, q, n)

\* engine.py 254-269: _extract_links answers, the links are enqueued and the
\* visit returns; a ValueError of urlparse in the loop goes to the except clause
ExtractLinks ==
    /\ pc = "links"
    /\ \E links \in LinkLists :
         LET e == enqueue_links(links, visit.depth, queue, 0) IN
         /\ queue' = e.queue
         /\ enqueued' = enqueued \cup { e.queue[i] : i \in (Len(queue) + 1)..Len(e.queue) }
         /\ visit' = [ visit EXCEPT !.added = e.added, !.ran = @ \cup {"_extract_links"} ]
         /\ IF e.raised
            THEN LeaveTry("return", << ErrorResult(visit.url, visit.depth, NoStatus,
                                                    ExceptionMessage) >>)
            ELSE LeaveTry("return", << OkResult(visit) >>)
    /\ UNCHANGED << config, visited, pages, consent_result, total_elements,
                    consent_handled, added, progress, robots, playwright, browser,
                    context, exc, timed_out, returned, first_load, call, engines,
                    classify >>


\* C25 mutant: the loop dequeues again as soon as a visit is recorded
after_visit_no_delay == "loop"

\* engine.py 184: the loop sleeps after every visit it has recorded
after_visit == "sleep"

\* engine.py 279 and 164-171: page.close() is over.  A returning visit hands
\* its PageResult to the loop, which records it up to the sleep of line 184;
\* a cancelled one lets the CancelledError go on to wait_for, which raises
\* TimeoutError into the except clause of line 116.
ClosePageDone ==
    /\ pc = "closing"
    /\ IF unwinding = "return"
       THEN LET r == result[1] IN
            /\ pages' = Append(pages, r)
            /\ total_elements' = total_elements + Len(r.elements)
            /\ progress' = [ progress EXCEPT
                               !.pages_scanned = Len(pages) + 1,
                               !.total_pages_found = Cardinality(visited) + Len(queue) ]
            /\ consent_handled' = consent_handled_after_visit
            /\ added' = Append(added, visit.added)
            /\ pc' = after_visit
       ELSE /\ progress' = [ progress EXCEPT !.status = "timeout" ]
            /\ pc' = "close_context"
            /\ UNCHANGED << pages, total_elements, consent_handled, added >>
    /\ unwinding' = "none"
    /\ result' = <<>>
    /\ visit' = NoVisit
    /\ UNCHANGED << config, visited, queue, consent_result, robots, playwright,
                    browser, context, page, exc, timed_out, returned, calls,
                    first_load, call, engines, enqueued, classify >>

\* engine.py 279: page.close() raises; the exception replaces whatever was
\* leaving the try block and leaves _visit_page, _crawl_loop and wait_for
ClosePageRaises ==
    /\ pc = "closing"
    /\ exc' = "page.close failed"
    /\ unwinding' = "none"
    /\ result' = <<>>
    /\ visit' = NoVisit
    /\ pc' = "close_context"
    /\ EngineUnchanged
    /\ UNCHANGED << progress, robots, playwright, browser, context, page, timed_out,
                    returned, calls >>

\* ------------------------------------------------- the deadline of wait_for
\* the awaits of _visit_page's try block
TryStages == {"goto", "settle", "title", "consent", "extract", "links"}

\* engine.py 112-115: the deadline fires while the visit is suspended in its
\* try block; CancelledError is raised there and the finally clause runs
CancelInTry ==
    /\ pc \in TryStages
    /\ ~ timed_out
    /\ timed_out' = TRUE
    /\ LeaveTry("cancel", <<>>)
    /\ EngineUnchanged
    /\ UNCHANGED << progress, robots, playwright, browser, context, visit, exc,
                    returned >>

\* engine.py 112-118: the deadline fires while the loop is suspended outside a
\* try block of _visit_page (in context.new_page, in page.close of the finally
\* clause, in asyncio.sleep); wait_for raises TimeoutError
CancelOutsideTry ==
    /\ pc \in {"new_page", "closing", "sleep"}
    /\ ~ timed_out
    /\ timed_out' = TRUE
    /\ progress' = [ progress EXCEPT !.status = "timeout" ]
    /\ unwinding' = "none"
    /\ result' = <<>>
    /\ visit' = NoVisit
    /\ pc' = "close_context"
    /\ EngineUnchanged
    /\ UNCHANGED << robots, playwright, browser, context, page, exc, returned, calls >>

\* --------------------------------------------------------- crawl(), teardown
\* C6 mutant: the finally clause closes nothing
left_by_finally(resource) == resource

\* engine.py 120-121: what the finally clause leaves of the context and of
\* the browser
closed_by_finally(resource) == "closed"

\* engine.py 120
CloseContext ==
    /\ pc = "close_context"
    /\ context' = closed_by_finally(context)
    /\ pc' = "close_browser"
    /\ EngineUnchanged
    /\ UNCHANGED << progress, robots, playwright, browser, page, visit, unwinding,
                    result, exc, timed_out, returned, calls >>

\* engine.py 121
CloseBrowser ==
    /\ pc = "close_browser"
    /\ browser' = closed_by_finally(browser)
    /\ pc' = "stop_playwright"
    /\ EngineUnchanged
    /\ UNCHANGED << progress, robots, playwright, context, page, visit, unwinding,
                    result, exc, timed_out, returned, calls >>

\* the end of `async with async_playwright()`: the driver stops, and a browser
\* or context that is still open goes with it
stopped_with_driver(resource) == IF resource = "open" THEN "closed" ELSE resource

\* C4 mutant: a status still "running" is returned as it is
final_status_kept(status) == status

\* engine.py 129-130
final_status(status) == IF status = "running" THEN "completed" ELSE status

\* engine.py 104 (exit of the `async with`) and 123-132
StopPlaywright ==
    /\ pc = "stop_playwright"
    /\ playwright' = "stopped"
    /\ browser' = stopped_with_driver(browser)
    /\ context' = stopped_with_driver(context)
    /\ IF exc # NONE
       THEN /\ pc' = "raised"
            /\ UNCHANGED << progress, returned >>
       ELSE /\ progress' = [ progress EXCEPT !.status = final_status(progress.status) ]
            /\ returned' = << pages >>
            /\ pc' = "done"
    /\ EngineUnchanged
    /\ UNCHANGED << robots, page, visit, unwinding, result, exc, timed_out, calls >>

\* -------------------------------------------------------------------- Next
Next ==
    \/ CheckRobots
    \/ StartPlaywright
    \/ Launch
    \/ LaunchRaises
    \/ NewContext
    \/ NewContextRaises
    \/ LoopStep
    \/ Sleep
    \/ NewPage
    \/ NewPageRaises
    \/ Goto
    \/ StageRaises
    \/ Settle
    \/ Title
    \/ HandleConsent
    \/ Extract
    \/ ExtractLinks
    \/ ClosePageDone
    \/ ClosePageRaises
    \/ CancelInTry
    \/ CancelOutsideTry
    \/ CloseContext
    \/ CloseBrowser
    \/ StopPlaywright

Spec == Init /\ [][Next]_vars


\* ======================================================= library functions
\* The functions the engine and its callers use, called on their own: one
\* action per function, its inputs drawn from the sets below, its inputs and
\* its answer recorded in `call`.  A behaviour is one call; the crawl itself
\* does not move.
LibUnchanged == UNCHANGED << config, progress, visited, pages, queue, consent_result,
                             total_elements, consent_handled, pc, robots, playwright,
                             browser, context, page, visit, unwinding, result, exc,
                             timed_out, returned, calls, added, first_load,
                             engines, enqueued, classify >>

\* ------------------------------------------------------- check_robots_txt
\* the paths a caller may ask about
RobotsPaths == { <<"/">>, <<"/", "private", "/", "x">>, <<"/", "public">> }

\* the seeds of a crawl: the paths above on the crawled origin
Seeds == { <<Origin>> \o path : path \in RobotsPaths }

\* robots.py 9-56, for any path
CallCheckRobots ==
    /\ call = NoCall
    /\ \E fetch \in RobotsFetches, path \in RobotsPaths :
         call' = [ fn |-> "check_robots_txt", fetch |-> fetch, path |-> path,
                   out |-> check_robots_txt(fetch, path) ]
    /\ LibUnchanged

\* engine.py 89-98: the robots check of crawl(), for any seed
CallCrawlRobots ==
    /\ call = NoCall
    /\ \E url \in Seeds, fetch \in RobotsFetches :
         LET r == crawl_robots(url, fetch) IN
         call' = [ fn |-> "crawl", url |-> url, fetch |-> fetch, out |-> r,
                   blocked |-> RobotsBlocks(r) ]
    /\ LibUnchanged

\* ---------------------------------------------------------- handle_consent
\* C15 mutant: the text strategies are tried before the selector ones
StrategiesTextFirst ==
    << "accept_text", "accept_selector", "close_text", "close_selector", "dom_bypass" >>

\* consent.py 248-282: the dismissal strategies, in the order of the code:
\* _try_click_selectors(ACCEPT_SELECTORS), _try_click_text(ACCEPT_TEXT_PATTERNS),
\* _try_click_selectors(CLOSE_SELECTORS), _try_click_text(CLOSE_TEXT_PATTERNS),
\* _try_dom_bypass
Strategies ==
    << "accept_selector", "accept_text", "close_selector", "close_text", "dom_bypass" >>

StrategyNames == { "accept_selector", "accept_text", "close_selector", "close_text",
                   "dom_bypass" }

\* consent.py 252, 259, 266, 273, 280: the action reported for a strategy
action_of(strategy) ==
    CASE strategy \in {"accept_selector", "accept_text"} -> "accept_all"
      [] strategy \in {"close_selector", "close_text"} -> "close"
      [] OTHER -> "bypass_css"

\* consent.py 91-100: detect_framework, "unknown" when no signature matches
Frameworks == { "onetrust", "unknown" }

\* consent.py 248-289: the if-return chain from strategy k on.  works[s] is
\* what the helper of strategy s answers when it is called (an exception in a
\* helper is caught there and counts as no click); tried is the strategies
\* called so far
RECURSIVE cascade(_, _, _)
cascade(works, k, tried) ==
    IF k > Len(Strategies)
    THEN [ action |-> "failed", attempted |-> tried ]
    ELSE LET strategy == Strategies[k] IN
         IF works[strategy]
         THEN [ action |-> action_of(strategy), attempted |-> Append(tried, strategy) ]
         ELSE cascade(works, k + 1, Append(tried, strategy))

\* C31 mutant: the strategies are tried whether or not a banner is visible
handle_consent_unguarded(has_banner, framework, works) ==
    LET c == cascade(works, 1, <<>>) IN
    [ detected |-> has_banner, action |-> IF has_banner THEN c.action ELSE "none",
      framework |-> framework, attempted |-> c.attempted ]

\* consent.py 229-289
handle_consent(has_banner, framework, works) ==
    IF ~ has_banner
    THEN [ detected |-> FALSE, action |-> "none", framework |-> "unknown",
           attempted |-> <<>> ]
    ELSE LET c == cascade(works, 1, <<>>) IN
         [ detected |-> TRUE, action |-> c.action, framework |-> framework,
           attempted |-> c.attempted ]

\* the largest number of overlays the DOM bypass finds to remove
MaxRemoved == 1

ClickStrategies == { "accept_selector", "accept_text", "close_selector", "close_text" }

\* consent.py 103-136: what a click helper meets.  "no_match": no candidate is
\* visible; "clicked": click and wait succeed; "click_raises": the click
\* raises and no other candidate matches; "wait_raises": the click lands,
\* wait_for_timeout raises and no other candidate matches
ClickBehaviours == { "no_match", "clicked", "click_raises", "wait_raises" }

\* consent.py 139-177: what the page evaluation of the DOM bypass does: it
\* raises before touching the page, or removes some overlays and resets the
\* overflow styles and then returns or raises
BypassBehaviours ==
    { [ removed |-> n, raises |-> r ] : n \in 0..MaxRemoved, r \in {"no", "at_end"} }
    \cup { [ removed |-> 0, raises |-> "at_start" ] }

\* C32 mutant: the DOM bypass counts as done whenever its evaluation returns
helper_answer_any_bypass(strategy, clicks, bypass) ==
    IF strategy = "dom_bypass" THEN bypass.raises = "no"
    ELSE clicks[strategy] = "clicked"

\* consent.py 103-177: what the helper of a strategy answers; an exception in
\* it is caught there and the answer is False
helper_answer(strategy, clicks, bypass) ==
    IF strategy = "dom_bypass" THEN bypass.raises = "no" /\ bypass.removed > 0
    ELSE clicks[strategy] = "clicked"

\* consent.py 23, 281-289: the notes of the ConsentResult, None by default
notes_of(action) ==
    CASE action = "bypass_css" -> "Overlay removed via DOM manipulation"
      [] action = "failed" -> "All dismissal strategies exhausted"
      [] OTHER -> NONE

\* what the strategies that were called did to the page
page_effects(attempted, clicks, bypass) ==
    LET tried == { attempted[i] : i \in 1..Len(attempted) } IN
    [ clicked |-> { s \in tried \cap ClickStrategies :
                      clicks[s] \in {"clicked", "wait_raises"} },
      removed |-> IF "dom_bypass" \in tried THEN bypass.removed ELSE 0,
      overflow |-> IF "dom_bypass" \in tried /\ bypass.raises # "at_start"
                   THEN "auto" ELSE "as_served" ]

\* consent.py 237-244: the helpers handle_consent calls before the strategies
probes_called(has_banner) ==
    IF has_banner THEN << "_has_visible_consent_banner", "detect_framework" >>
    ELSE << "_has_visible_consent_banner" >>

CallHandleConsent ==
    /\ call = NoCall
    /\ \E has_banner \in BOOLEAN, framework \in Frameworks,
          clicks \in [ClickStrategies -> ClickBehaviours], bypass \in BypassBehaviours :
         LET works == [ s \in StrategyNames |-> helper_answer(s, clicks, bypass) ]
             out == handle_consent(has_banner, framework, works)
         IN  call' = [ fn |-> "handle_consent", has_banner |-> has_banner,
                       works |-> works, clicks |-> clicks, bypass |-> bypass,
                       out |-> out,
                       notes |-> notes_of(out.action),
                       called |-> probes_called(has_banner) \o out.attempted,
                       page |-> page_effects(out.attempted, clicks, bypass) ]
    /\ LibUnchanged

\* ------------------------------------------------------ detect_tag_context
\* A string is the sequence of its words (for a URL: of its tokens), and
\* `needle in haystack` is the needle's words standing together in the
\* haystack's.  None and "" are both <<>>; an Optional[str] that is returned
\* is the set of the strings returned, {} for None.

\* str.lower()
lower_words(ws) == [ i \in 1..Len(ws) |-> lower(ws[i]) ]

\* needle in haystack
IsSubstring(needle, haystack) ==
    \E i \in 0..(Len(haystack) - Len(needle)) :
        SubSeq(haystack, i + 1, i + Len(needle)) = needle

\* extractor.py 14-54; a dict keeps the order its keys are written in
PHARMA_PATTERNS ==
    << [ category |-> "isi",
         patterns |-> << << "important", "safety", "information" >>,
                         << "full", "prescribing", "information" >>,
                         << "medication", "guide" >>,
                         << "prescribing", "information" >>,
                         << "safety", "information" >> >> ],
       [ category |-> "adverse_event",
         patterns |-> << << "report", "side", "effects" >>,
                         << "adverse", "event" >>,
                         << "medwatch" >>,
                         << "report", "adverse" >>,
                         << "side", "effect" >> >> ],
       [ category |-> "patient_enrollment",
         patterns |-> << << "patient", "support" >>,
                         << "copay" >>,
                         << "savings", "card" >>,
                         << "savings", "program" >>,
                         << "co-pay" >>,
                         << "patient", "assistance" >>,
                         << "enroll" >>,
                         << "sign", "up", "for", "savings" >> >> ],
       [ category |-> "hcp_gate",
         patterns |-> << << "are", "you", "a", "healthcare", "professional" >>,
                         << "for", "us", "healthcare", "professionals" >>,
                         << "healthcare", "provider" >>,
                         << "hcp", "portal" >>,
                         << "for", "healthcare", "professionals" >>,
                         << "i", "am", "a", "healthcare" >> >> ],
       [ category |-> "fair_balance",
         patterns |-> << << "indications", "and", "usage" >>,
                         << "contraindications" >>,
                         << "warnings", "and", "precautions" >>,
                         << "boxed", "warning" >>,
                         << "black", "box", "warning" >> >> ] >>

\* extractor.py 62-65: the two loops from category c, pattern p on; what is
\* returned at the first pattern found in the text is the category
RECURSIVE scan_patterns(_, _, _)
scan_patterns(text_lower, c, p) ==
    IF c > Len(PHARMA_PATTERNS) THEN {}
    ELSE IF p > Len(PHARMA_PATTERNS[c].patterns) THEN scan_patterns(text_lower, c + 1, 1)
    ELSE IF IsSubstring(PHARMA_PATTERNS[c].patterns[p], text_lower)
    THEN { << PHARMA_PATTERNS[c].category >> }
    ELSE scan_patterns(text_lower, c, p + 1)

\* C35 mutant: every URL counts as a download of safety information
url_is_isi_always(url_lower) == TRUE

\* extractor.py 67-72
url_is_isi(url_lower) ==
    \/ IsSubstring(<< "prescribing" >>, url_lower)
    \/ IsSubstring(<< "/", "pi" >>, url_lower)
    \/ IsSubstring(<< "medguide" >>, url_lower)
    \/ IsSubstring(<< "medication-guide" >>, url_lower)

\* extractor.py 57-73
detect_pharma_builtin(text, url) ==
    IF text = <<>> THEN {}
    ELSE LET found == scan_patterns(lower_words(text), 1, 1) IN
         IF found # {} THEN found
         ELSE IF url # <<>> /\ url_is_isi(lower_words(url)) THEN { << "isi" >> }
         ELSE {}

\* extractor.py 102-105: the first keyword found is returned as it was given
RECURSIVE first_keyword(_, _)
first_keyword(keywords, combined) ==
    IF keywords = <<>> THEN {}
    ELSE IF IsSubstring(lower_words(Head(keywords)), combined) THEN { Head(keywords) }
    ELSE first_keyword(Tail(keywords), combined)

\* C36 mutant: the tag name alone selects the built-in tables
detect_tag_context_by_name(text, url, tag_name, keywords) ==
    IF tag_name = "Pharma" THEN detect_pharma_builtin(text, url)
    ELSE IF keywords = <<>> THEN {}
    ELSE LET combined == (IF text # <<>> THEN lower_words(text) ELSE <<>>)
                         \o (IF url # <<>> THEN << " " >> \o lower_words(url) ELSE <<>>)
         IN  IF combined = <<>> THEN {} ELSE first_keyword(keywords, combined)

\* extractor.py 76-105
detect_tag_context(text, url, tag_name, keywords) ==
    IF tag_name = "Pharma" /\ keywords = <<>> THEN detect_pharma_builtin(text, url)
    ELSE IF keywords = <<>> THEN {}
    ELSE LET combined == (IF text # <<>> THEN lower_words(text) ELSE <<>>)
                         \o (IF url # <<>> THEN << " " >> \o lower_words(url) ELSE <<>>)
         IN  IF combined = <<>> THEN {} ELSE first_keyword(keywords, combined)

\* the most keywords a caller supplies
MaxKeywords == 2

Texts ==
    { <<>>,
      << "View", "Important", "Safety", "Information" >>,
      << "Sign", "up", "for", "savings", "card" >>,
      << "Boxed", "Warning", "and", "Safety", "Information" >>,
      << "Read", "our", "cookie", "policy", "and", "privacy", "notice" >>,
      << "Click", "here" >> }

ElementUrls ==
    { <<>>,
      << "https://example.com", "/", "medication-guide" >>,
      << "https://example.com", "/", "prescribing", "-info.pdf" >>,
      << "https://example.com", "/", "privacy", "notice" >> }

TagNames == { "Pharma", "Compliance" }

Keywords == { << "cookie", "policy" >>, << "privacy", "notice" >>, << "Cookie", "Policy" >> }

KeywordLists == UNION { [1..n -> Keywords] : n \in 0..MaxKeywords }

CallDetectTagContext ==
    /\ call = NoCall
    /\ \E text \in Texts, url \in ElementUrls, tag_name \in TagNames,
          keywords \in KeywordLists :
         call' = [ fn |-> "detect_tag_context", text |-> text, url |-> url,
                   tag_name |-> tag_name, keywords |-> keywords,
                   out |-> detect_tag_context(text, url, tag_name, keywords) ]
    /\ LibUnchanged

\* --------------------------------------------------------------- ScanConfig
\* A float is finite (counted in hundredths), an infinity or NaN; pydantic's
\* float field takes all of them.
Float(hundredths) == [ kind |-> "finite", hundredths |-> hundredths ]
NaN == [ kind |-> "nan", hundredths |-> 0 ]
PosInf == [ kind |-> "inf", hundredths |-> 0 ]
NegInf == [ kind |-> "-inf", hundredths |-> 0 ]

\* a < b on floats: false as soon as one of them is NaN
float_lt(a, b) ==
    CASE a.kind = "nan" \/ b.kind = "nan" -> FALSE
      [] a.kind = "-inf" -> b.kind # "-inf"
      [] a.kind = "inf" -> FALSE
      [] OTHER -> b.kind = "inf" \/ (b.kind = "finite" /\ a.hundredths < b.hundredths)

\* ScanConfig.enforce_rate_floor
enforce_rate_floor(v) == IF float_lt(v, Float(50)) THEN Float(50) ELSE v

\* models.py 7-9: the defaults of the fields (pydantic does not validate them)
ScanConfigDefaults == [ max_pages |-> 200, max_depth |-> 5, rate_limit |-> Float(100) ]

\* how far past the ends of the clamps the integer inputs go
MaxOver == 3

IntInputs == (0 - MaxOver)..(1000 + MaxOver)

RateInputs ==
    { Float(h) : h \in {0 - 100, 0, 10, 49, 50, 51, 100, 500} } \cup { NaN, PosInf, NegInf }

\* ScanConfig(url=..., <one field>=v): the field's validator runs on v, the
\* other fields keep their defaults
CallScanConfig ==
    /\ call = NoCall
    /\ \/ \E v \in IntInputs :
            call' = [ fn |-> "ScanConfig", field |-> "max_pages", given |-> v,
                      out |-> [ ScanConfigDefaults EXCEPT
                                  !.max_pages = clamp_max_pages(v) ] ]
       \/ \E v \in IntInputs :
            call' = [ fn |-> "ScanConfig", field |-> "max_depth", given |-> v,
                      out |-> [ ScanConfigDefaults EXCEPT
                                  !.max_depth = clamp_max_depth(v) ] ]
       \/ \E v \in RateInputs :
            call' = [ fn |-> "ScanConfig", field |-> "rate_limit", given |-> v,
                      out |-> [ ScanConfigDefaults EXCEPT
                                  !.rate_limit = enforce_rate_floor(v) ] ]
    /\ LibUnchanged

\* --------------------------------------------------------- detect_analytics
\* analytics.py 15-21: the checks of DETECTION_JS in the order they are
\* written; each pushes its name when its globals are there, and a check that
\* throws is caught on its own line
AnalyticsChecks ==
    << "GTM", "Adobe Launch", "Tealium", "Segment", "GA4", "Adobe Analytics", "Hotjar" >>

AnalyticsNames == { AnalyticsChecks[i] : i \in 1..Len(AnalyticsChecks) }

\* analytics.py 13-23: `detected` after the checks from the k-th on
RECURSIVE detection_js(_, _, _)
detection_js(present, k, detected) ==
    IF k > Len(AnalyticsChecks) THEN detected
    ELSE detection_js(present, k + 1,
                      IF AnalyticsChecks[k] \in present
                      THEN Append(detected, AnalyticsChecks[k]) ELSE detected)

\* what page.evaluate(DETECTION_JS) does: it raises, it gives None, or it gives
\* the list of the script
Probes ==
    { [ kind |-> "raises", value |-> <<>> ], [ kind |-> "none", value |-> <<>> ] }
    \cup { [ kind |-> "list", value |-> detection_js(present, 1, <<>>) ] :
           present \in SUBSET AnalyticsNames }

\* C20 mutant: what page.evaluate raises is not caught
detect_analytics_uncaught(probe) ==
    IF probe.kind = "raises" THEN [ raised |-> TRUE, value |-> <<>> ]
    ELSE [ raised |-> FALSE, value |-> probe.value ]

\* analytics.py 27-40: `return result or []`, `except Exception: return []`
detect_analytics(probe) ==
    IF probe.kind = "raises" THEN [ raised |-> FALSE, value |-> <<>> ]
    ELSE IF probe.kind = "none" \/ probe.value = <<>>
    THEN [ raised |-> FALSE, value |-> <<>> ]
    ELSE [ raised |-> FALSE, value |-> probe.value ]

CallDetectAnalytics ==
    /\ call = NoCall
    /\ \E probe \in Probes :
         call' = [ fn |-> "detect_analytics", probe |-> probe,
                   out |-> detect_analytics(probe) ]
    /\ LibUnchanged

\* --------------------------------------------------------- extract_elements
\* the most elements the rules of EXTRACTION_JS offer on one page
MaxCandidates == 3

ElementTypes == { "link", "button" }

\* what getSelector answers; one selector may be answered for two elements
Selectors == { "a", "div:nth-child(2)" }

\* an element a rule hands to addElement: the type the rule gives it, its
\* selector, whether isVisible holds, and whether building its record throws
\* in the statements of addElement that no try block encloses (getLabel,
\* href.startsWith at line 274, getSectionContext, getContainerContext)
Candidates ==
    [ element_type : ElementTypes, css_selector : Selectors, visible : BOOLEAN,
      throws : BOOLEAN ]

CandidateLists == UNION { [1..n -> Candidates] : n \in 0..MaxCandidates }

\* extractor.py 265: type + ':' + selector
seen_key(element_type, selector) == << element_type, ":", selector >>

\* C21 mutant: no key counts as seen
seen_has_never(seen, key) == FALSE

\* extractor.py 266: seen.has(key)
seen_has(seen, key) == key \in seen

\* extractor.py 261-293 for the candidates from the k-th on: addElement
\* returns for an invisible element and for a key already seen, and pushes a
\* record otherwise; an exception thrown while the record is built leaves
\* addElement, the forEach of its rule and the script.  `offered` stands for
\* what the record takes from the element itself (label, href, contexts):
\* the place of the element among the candidates
RECURSIVE add_elements(_, _, _, _)
add_elements(candidates, k, seen, elements) ==
    IF k > Len(candidates) THEN [ threw |-> FALSE, elements |-> elements ]
    ELSE LET el == candidates[k]
             key == seen_key(el.element_type, el.css_selector)
         IN  IF ~ el.visible \/ seen_has(seen, key)
             THEN add_elements(candidates, k + 1, seen, elements)
             ELSE IF el.throws
             THEN [ threw |-> TRUE, elements |-> elements ]
             ELSE add_elements(candidates, k + 1, seen \cup {key},
                               Append(elements,
                                      [ element_type |-> el.element_type,
                                        css_selector |-> el.css_selector,
                                        offered |-> k ]))

\* extractor.py 110-380: EXTRACTION_JS
extraction_js(candidates) == add_elements(candidates, 1, {}, <<>>)

\* extractor.py 394: page.evaluate raises when the page cannot be evaluated
\* and when the script throws
evaluate_raises(page_fails, candidates) ==
    page_fails \/ extraction_js(candidates).threw

\* extractor.py 383-437: [] when page.evaluate raised, else one ElementResult
\* per raw element, in the order of the script
extract_elements(page_fails, candidates) ==
    IF evaluate_raises(page_fails, candidates) THEN <<>>
    ELSE LET raw_elements == extraction_js(candidates).elements IN
         [ i \in 1..Len(raw_elements) |->
             [ element_type |-> raw_elements[i].element_type,
               css_selector |-> raw_elements[i].css_selector,
               offered |-> raw_elements[i].offered ] ]

CallExtractElements ==
    /\ call = NoCall
    /\ \E page_fails \in BOOLEAN, candidates \in CandidateLists :
         call' = [ fn |-> "extract_elements", page_fails |-> page_fails,
                   raises |-> evaluate_raises(page_fails, candidates),
                   candidates |-> candidates,
                   out |-> extract_elements(page_fails, candidates) ]
    /\ LibUnchanged

\* ------------------------------------------------------ the enqueue filter
\* the a.href values a page of any site may offer: those of Hrefs and with
\* them other hosts, other schemes and paths with an extension
AnyHrefs ==
    Hrefs \cup
    { <<OtherOrigin, "/", "p">>,
      <<"http://a.com", "/", "q">>,
      <<"mailto:x@a.com">>,
      <<Origin, "/", "f", ".pdf">>,
      <<Origin, "/", "f", ".PDF", "#", "f">>,
      <<Origin, "/", "f", ".js", "/">> }

AnyLinkLists == UNION { [1..n -> AnyHrefs] : n \in 0..MaxLinks }

\* the visited sets the loop may have built when the links arrive
VisitedSets == SUBSET { normalize_url(SeedUrl), <<Origin, "/", "p">> }

\* engine.py 252-261 on an empty frontier
CallEnqueueLinks ==
    /\ call = NoCall
    /\ \E seen \in VisitedSets, links \in AnyLinkLists, depth \in 0..MaxDepthIn :
         call' = [ fn |-> "enqueue_links", seen |-> seen, links |-> links,
                   depth |-> depth,
                   out |-> enqueue_links_from(seen, links, depth, <<>>, 0) ]
    /\ LibUnchanged

\* ---------------------------------------------------------------- _run_scan
\* the most pages a crawl handed to _run_scan holds
MaxScanPages == 2

\* consent.py 21: the actions a ConsentResult may carry
ConsentActions == { "none", "accept_all", "close", "bypass_css", "failed" }

\* engine.consent_result when crawl() is over: None, or the ConsentResult of
\* the one visit that ran handle_consent
ScanConsentResults ==
    { <<>> } \cup { << [ detected |-> a # "none", action |-> a ] >> : a \in ConsentActions }

\* the PageResults of a crawl, told apart by their elements
ScanPages == { PageResult(<<Origin>>, NONE, {200}, 0, els, NONE) : els \in ElementLists }

ScanPageLists == UNION { [1..n -> ScanPages] : n \in 0..MaxScanPages }

\* how engine.crawl() may end: by raising, or by returning self.pages with a
\* final status.  Blocked crawls visited nothing, completed ones the seed.
CrawlOutcomes ==
    { [ raises |-> TRUE, status |-> "running", pages |-> <<>>, consent_result |-> <<>> ] }
    \cup
    { o \in [ raises : {FALSE}, status : {"completed", "timeout", "blocked_by_robots"},
              pages : ScanPageLists, consent_result : ScanConsentResults ] :
        /\ (o.status = "blocked_by_robots" => o.pages = <<>> /\ o.consent_result = <<>>)
        /\ (o.status = "completed" => o.pages # <<>>) }

\* getattr on a pydantic model: AttributeError unless the model declares the field
has_attribute(obj, name) == name \in DOMAIN obj

\* scans.py 66-79
scan_quality_of(cr) ==
    IF cr = <<>> THEN "clean"
    ELSE CASE cr[1].action = "failed" -> "blocked_by_consent"
           [] cr[1].action = "bypass_css" -> "partial_consent"
           [] OTHER -> "clean"

\* scans.py 61-63
final_status_of(status) == IF status = "running" THEN "completed" ELSE status

\* scans.py 229-233 and 51-56: the row is inserted as pending and set to running
\* before the crawl; scan_quality is NULL until the UPDATE of line 90
RunningRow == [ scan_status |-> << "pending", "running" >>, scan_quality |-> NONE,
                pages_scanned |-> 0, notes |-> NONE ]

\* scans.py 157-166: the except clause
FailedRow(message) ==
    [ RunningRow EXCEPT !.scan_status = Append(@, "failed"), !.notes = message ]

\* scans.py 40-166: the scans row once _run_scan is over, scan_status with the
\* values it went through
run_scan(crawl) ==
    IF crawl.raises THEN FailedRow("crawl raised")
    ELSE IF \E i \in 1..Len(crawl.pages) : ~ has_attribute(crawl.pages[i], "analytics")
    THEN FailedRow("'PageResult' object has no attribute 'analytics'")
    ELSE [ RunningRow EXCEPT
             !.scan_status = Append(@, final_status_of(crawl.status)),
             !.scan_quality = scan_quality_of(crawl.consent_result),
             !.pages_scanned = Len(crawl.pages) ]

CallRunScan ==
    /\ call = NoCall
    /\ \E crawl \in CrawlOutcomes :
         call' = [ fn |-> "run_scan", crawl |-> crawl, out |-> run_scan(crawl) ]
    /\ LibUnchanged

\* ------------------------------------------------------------------ LibSpec
LibInit == Init /\ config.max_pages = 1

LibNext ==
    \/ CallCheckRobots
    \/ CallCrawlRobots
    \/ CallHandleConsent
    \/ CallDetectTagContext
    \/ CallScanConfig
    \/ CallDetectAnalytics
    \/ CallExtractElements
    \/ CallEnqueueLinks
    \/ CallRunScan

LibSpec == LibInit /\ [][LibNext]_vars


\* ------------------------------------------------------------- PairSpec
\* the ScanConfig both engines are given
PairConfig == [ url |-> SeedUrl, max_pages |-> clamp_max_pages(MaxPagesIn),
                max_depth |-> clamp_max_depth(MaxDepthIn) ]

\* the anchors the site serves on each of its pages, in document order
site_links(url) ==
    CASE url = normalize_url(SeedUrl) -> << <<Origin, "/", "p", "/">>, <<Origin, "/", "q">> >>
      [] url = <<Origin, "/", "p">> -> << <<Origin, "/">>, <<Origin, "/", "q">> >>
      [] OTHER -> <<>>

\* what handle_consent answers on the site
site_consent == [ detected |-> TRUE, action |-> "accept_all" ]

\* engine.py 100-102: the seed is put on the queue
pair_seed(a, t) ==
    [ self |-> [ a EXCEPT !.queue = Append(@, << normalize_url(PairConfig.url), 0 >>) ],
      task |-> [ t EXCEPT !.pc = "loop" ] ]

\* engine.py 139-163 and 129-130: from the loop head to the call of _visit_page
pair_loop(a, t) ==
    IF a.queue = <<>> \/ Len(a.pages) >= PairConfig.max_pages
    THEN [ self |-> [ a EXCEPT !.status = "completed" ],
           task |-> [ t EXCEPT !.pc = "done" ] ]
    ELSE LET url == Head(a.queue)[1]
             depth == Head(a.queue)[2]
             normalized == normalize_url(url)
         IN  IF normalized \in a.visited \/ depth > PairConfig.max_depth
             THEN [ self |-> [ a EXCEPT !.queue = Tail(@) ], task |-> t ]
             ELSE [ self |-> [ a EXCEPT !.queue = Tail(@),
                                        !.visited = @ \cup {normalized} ],
                    task |-> [ t EXCEPT !.pc = "consent", !.url = normalized,
                                        !.depth = depth ] ]

\* engine.py 239-247: handle_consent has answered, on the first visit only
pair_consent(a, t) ==
    [ self |-> IF ~ t.consent_handled THEN [ a EXCEPT !.consent_result = << site_consent >> ]
               ELSE a,
      task |-> [ t EXCEPT !.pc = IF t.depth < PairConfig.max_depth THEN "links"
                                 ELSE "closing" ] ]

\* engine.py 252-261: _extract_links has answered and the links are enqueued
pair_links(a, t) ==
    [ self |-> [ a EXCEPT !.queue = enqueue_links_from(a.visited, site_links(t.url),
                                                       t.depth, @, 0).queue ],
      task |-> [ t EXCEPT !.pc = "closing" ] ]

\* engine.py 279 and 164-171: the page is closed and the result recorded
pair_record(a, t) ==
    [ self |-> [ a EXCEPT !.pages = Append(@, [ url |-> t.url, depth |-> t.depth ]) ],
      task |-> [ t EXCEPT !.pc = "loop", !.consent_handled = TRUE ] ]

\* one task runs from one await to the next
pair_step(a, t) ==
    CASE t.pc = "crawl" -> pair_seed(a, t)
      [] t.pc = "loop" -> pair_loop(a, t)
      [] t.pc = "consent" -> pair_consent(a, t)
      [] t.pc = "links" -> pair_links(a, t)
      [] t.pc = "closing" -> pair_record(a, t)
      [] OTHER -> [ self |-> a, task |-> t ]

\* the crawl of Spec and the library calls do not move
PairUnchanged == UNCHANGED << config, progress, visited, pages, queue, consent_result,
                              total_elements, consent_handled, pc, robots, playwright,
                              browser, context, page, visit, unwinding, result, exc,
                              timed_out, returned, calls, added, first_load, call,
                              enqueued, classify >>

\* the event loop resumes the task of engine e where it waits at `at`
Resume(e, at) ==
    /\ engines.task[e].pc = at
    /\ LET s == pair_step(engines.self[self_of(e)], engines.task[e]) IN
       engines' = [ self |-> [ engines.self EXCEPT ![self_of(e)] = s.self ],
                    task |-> [ engines.task EXCEPT ![e] = s.task ] ]
    /\ PairUnchanged

PairSeed == \E e \in Engines : Resume(e, "crawl")
PairLoop == \E e \in Engines : Resume(e, "loop")
PairConsent == \E e \in Engines : Resume(e, "consent")
PairLinks == \E e \in Engines : Resume(e, "links")
PairRecord == \E e \in Engines : Resume(e, "closing")

PairNext ==
    \/ PairSeed
    \/ PairLoop
    \/ PairConsent
    \/ PairLinks
    \/ PairRecord

PairSpec == LibInit /\ [][PairNext]_vars

\* ---------------------------------------------------------------------------
\* api/classify.py: start_classification and the background tasks it creates.
\* All of it runs on one event loop: a coroutine runs alone from one await to
\* the next, so each action below is the code between two awaits.
\* ---------------------------------------------------------------------------

\* bound of the model: the tasks created in one behaviour
MaxTasks == 2

\* the ways a task leaves the `async with` block of _run_classification
Leavings == {"early", "raised", "completed"}

\* what the SELECT of classify.py 181-185 finds for the scan
ScanRows == {"absent", "pending", "running", "failed", "completed"}

\* C40 mutant: the registry is not consulted
already_running_never(cl, scan_id) == FALSE

\* classify.py 196: `scan_id in _running_tasks and not
\* _running_tasks[scan_id].done()`
already_running(cl, scan_id) ==
    /\ cl.running_tasks[scan_id] # NoTask
    /\ cl.tasks[cl.running_tasks[scan_id][1]].pc # "done"

\* classify.py 200: asyncio.create_task; the task has not run yet
CreatedTask(scan_id) ==
    [ scan_id |-> scan_id, pc |-> "created", leaving |-> "" ]

\* task t goes on to `at`
TaskAt(t, at) == [ classify EXCEPT !.tasks[t].pc = at ]

\* task t leaves the `async with` block: __aexit__ awaits the close of the
\* connection before the block is left
TaskLeaves(t, how) ==
    [ classify EXCEPT !.tasks[t].pc = "closing", !.tasks[t].leaving = how ]

ClassifyUnchanged == UNCHANGED << config, progress, visited, pages, queue,
                                  consent_result, total_elements, consent_handled,
                                  pc, robots, playwright, browser, context, page,
                                  visit, unwinding, result, exc, timed_out,
                                  returned, calls, added, first_load, call,
                                  engines, enqueued >>

\* classify.py 174-185: without an API key the request is refused at once;
\* otherwise it awaits the SELECT of the scan
StartQuery ==
    /\ \E scan_id \in ScanIds, has_key \in BOOLEAN :
         IF has_key
         THEN classify' = [ classify EXCEPT !.requests = @ \cup {scan_id} ]
         ELSE classify' = [ classify EXCEPT
                              !.response = [ status |-> "no_api_key",
                                             scan_id |-> scan_id,
                                             task |-> NoTask ] ]
    /\ ClassifyUnchanged

\* classify.py 186-203, after the last await of the request: 404, 400,
\* already_running, or a task is created and registered
StartAnswer ==
    /\ \E scan_id \in classify.requests, row \in ScanRows :
         LET answered == [ classify EXCEPT !.requests = @ \ {scan_id} ]
             refuse(st) == [ answered EXCEPT
                               !.response = [ status |-> st, scan_id |-> scan_id,
                                              task |-> NoTask ] ]
             task == Len(classify.tasks) + 1
         IN  IF row = "absent" THEN classify' = refuse("not_found")
             ELSE IF row # "completed" THEN classify' = refuse("not_completed")
             ELSE IF already_running(classify, scan_id)
             THEN classify' = refuse("already_running")
             ELSE /\ Len(classify.tasks) < MaxTasks
                  /\ classify' =
                       [ answered EXCEPT
                           !.tasks = Append(@, CreatedTask(scan_id)),
                           !.running_tasks[scan_id] = << task >>,
                           !.response = [ status |-> "started",
                                          scan_id |-> scan_id,
                                          task |-> << task >> ] ]
    /\ ClassifyUnchanged

\* classify.py 96-101: the task starts and awaits aiosqlite.connect; when the
\* connection fails the exception ends the task before the block is entered
TaskConnect ==
    /\ \E t \in DOMAIN classify.tasks, raises \in BOOLEAN :
         /\ classify.tasks[t].pc = "created"
         /\ classify' = IF raises
                        THEN [ classify EXCEPT !.tasks[t].pc = "done",
                                               !.tasks[t].leaving = "raised" ]
                        ELSE TaskAt(t, "verify")
    /\ ClassifyUnchanged

\* classify.py 104-111: the ownership check; `return` when the scan is not the
\* user's
TaskVerify ==
    /\ \E t \in DOMAIN classify.tasks, outcome \in {"owned", "not_owned", "raises"} :
         /\ classify.tasks[t].pc = "verify"
         /\ classify' = CASE outcome = "owned" -> TaskAt(t, "fetch")
                          [] outcome = "not_owned" -> TaskLeaves(t, "early")
                          [] outcome = "raises" -> TaskLeaves(t, "raised")
    /\ ClassifyUnchanged

\* classify.py 113-127: the unclassified elements are fetched; `return` when
\* there are none
TaskFetch ==
    /\ \E t \in DOMAIN classify.tasks, elements \in {"none", "some"},
          raises \in BOOLEAN :
         /\ classify.tasks[t].pc = "fetch"
         /\ classify' = IF raises THEN TaskLeaves(t, "raised")
                        ELSE IF elements = "none" THEN TaskLeaves(t, "early")
                        ELSE TaskAt(t, "batch")
    /\ ClassifyUnchanged

\* classify.py 131-160: one batch: the classifier runs in a thread (a failure
\* is logged and the loop continues), the tiers are written and committed;
\* the loop ends with the last batch of the elements
TaskBatch ==
    /\ \E t \in DOMAIN classify.tasks, raises \in BOOLEAN, last \in BOOLEAN :
         /\ classify.tasks[t].pc = "batch"
         /\ classify' = IF raises THEN TaskLeaves(t, "raised")
                        ELSE IF last THEN TaskLeaves(t, "completed")
                        ELSE TaskAt(t, "batch")
    /\ ClassifyUnchanged

\* classify.py 101, 162-164: the connection is closed; a task that reached the
\* end of the block pops its scan from _running_tasks and returns, with no
\* await in between; a task that returned early or raised ends without the pop
TaskClose ==
    /\ \E t \in DOMAIN classify.tasks, raises \in BOOLEAN :
         LET task == classify.tasks[t] IN
         /\ task.pc = "closing"
         /\ classify' =
              IF task.leaving = "completed" /\ ~ raises
              THEN [ classify EXCEPT !.tasks[t].pc = "done",
                                     !.running_tasks[task.scan_id] = NoTask ]
              ELSE [ classify EXCEPT !.tasks[t].pc = "done",
                                     !.tasks[t].leaving =
                                         IF raises THEN "raised" ELSE @ ]
    /\ ClassifyUnchanged

ClassifyNext ==
    \/ StartQuery
    \/ StartAnswer
    \/ TaskConnect
    \/ TaskVerify
    \/ TaskFetch
    \/ TaskBatch
    \/ TaskClose

ClassifySpec == LibInit /\ [][ClassifyNext]_vars


\* a crawl() task running with nothing else on the event loop, to its end
RECURSIVE run_alone(_, _)
run_alone(a, t) ==
    IF t.pc = "done" THEN { [ self |-> a, task |-> t ] }
    ELSE LET s == pair_step(a, t) IN
         { [ self |-> a, task |-> t ] } \cup run_alone(s.self, s.task)

\* the states a crawl passes through when it runs alone, and the one it ends in
AloneStates == run_alone(NewEngine, NewTask)
AloneEnd == CHOOSE s \in AloneStates : s.task.pc = "done"


\* =================================================================== claims
Statuses == {"running", "completed", "timeout", "blocked_by_robots"}
FinalStatuses == Statuses \ {"running"}
PageIndexes == 1..Len(pages)

\* C1: in every state of a crawl the number of PageResults collected, and
\* pages_scanned with it, is at most the effective max_pages; a crawl with
\* max_pages = 1 that completes returns exactly one PageResult.
C1_PageCap ==
    /\ Len(pages) <= config.max_pages
    /\ progress.pages_scanned = Len(pages)
    /\ (pc = "done" /\ progress.status = "completed" /\ config.max_pages = 1
          => Len(returned[1]) = 1)

\* C1 witness: max_pages = 1, the seed page offered two links, both are still
\* in the frontier, and the crawl completed with one PageResult
C1_Witness ==
    /\ pc = "done"
    /\ progress.status = "completed"
    /\ config.max_pages = 1
    /\ Len(queue) = 2
    /\ Len(returned[1]) = 1

\* C2: no PageResult has a depth above the effective max_depth, which lies
\* in 1..20.
C2_DepthBound ==
    /\ config.max_depth \in 1..20
    /\ \A i \in PageIndexes : pages[i].depth <= config.max_depth
    /\ \A i \in 1..Len(result) : result[i].depth <= config.max_depth

\* C2 witness: three pages were visited and the last lies at the depth limit
C2_Witness ==
    /\ Len(pages) = 3
    /\ pages[3].depth = config.max_depth
    /\ pages[3].error = NONE

\* the claim's normal form of a URL: fragment stripped, trailing slashes stripped
RECURSIVE WithoutTrailingSlash(_)
WithoutTrailingSlash(url) ==
    IF Len(url) > 0 /\ url[Len(url)] = "/"
    THEN WithoutTrailingSlash(SubSeq(url, 1, Len(url) - 1))
    ELSE url

WithoutFragment(url) ==
    IF \E i \in 1..Len(url) : url[i] = "#"
    THEN SubSeq(url, 1, (CHOOSE i \in 1..Len(url) :
                            url[i] = "#" /\ \A j \in 1..(i - 1) : url[j] # "#") - 1)
    ELSE url

Equivalent(a, b) ==
    WithoutTrailingSlash(WithoutFragment(a)) = WithoutTrailingSlash(WithoutFragment(b))

\* C3: no two entries of the visited set are equivalent; every PageResult is
\* of a visited URL and no two PageResults are of equivalent URLs, so a page,
\* failed or not, is recorded once; the URL being visited has no PageResult
\* yet; and when a failed page is recorded the loop goes on to its sleep and
\* the next frontier entry.
C3_NoRevisit ==
    /\ [](/\ \A a, b \in visited : Equivalent(a, b) => a = b
          /\ \A i \in PageIndexes : pages[i].url \in visited
          /\ \A i, j \in PageIndexes :
               Equivalent(pages[i].url, pages[j].url) => i = j
          /\ \A i \in PageIndexes :
               visit.url # <<>> => ~ Equivalent(pages[i].url, visit.url))
    /\ [][ (Len(pages') = Len(pages) + 1 /\ pages'[Len(pages')].error # NONE)
             => pc' = "sleep" ]_vars

\* C3 witness: the seed page enqueued the same URL twice, its visit failed,
\* was recorded once, and the crawl went through the rest of the frontier
C3_Witness ==
    /\ pc = "done"
    /\ progress.status = "completed"
    /\ config.max_pages = 3
    /\ added = <<2, 0>>
    /\ Cardinality(visited) = 2
    /\ Len(pages) = 2
    /\ pages[2].error # NONE
    /\ calls.new_page = 2

\* C4: the status starts as running, changes only from running, and only to
\* completed, timeout or blocked_by_robots; when crawl() has returned it is
\* one of those three.
C4_StatusMachine ==
    /\ [](progress.status \in Statuses)
    /\ [](pc = "crawl" => progress.status = "running")
    /\ [][ progress.status # "running" => progress'.status = progress.status ]_vars
    /\ [](pc = "done" => progress.status \in FinalStatuses)

\* C4 witness: crawl() returned a page with the status completed
C4_Witness ==
    /\ pc = "done"
    /\ progress.status = "completed"
    /\ Len(pages) = 2
    /\ timed_out = FALSE


\* C5: once the deadline has fired in the frontier loop, the crawl ends by
\* returning, with the status timeout and with every PageResult recorded.
C5_TimeoutKeepsPages ==
    timed_out /\ pc \in {"done", "raised"}
        => /\ pc = "done"
           /\ progress.status = "timeout"
           /\ returned = << pages >>

\* C6: the browser is launched and the context created at most once; once
\* the try block of crawl() has been entered its finally clause leaves both
\* closed, and no exit of crawl(), by return or by exception, leaves the
\* browser or the context open.
C6_Teardown ==
    /\ calls.launch <= 1
    /\ calls.new_context <= 1
    /\ (pc = "stop_playwright" /\ context # "none"
          => context = "closed" /\ browser = "closed")
    /\ (pc \in {"done", "raised"} => browser # "open" /\ context # "open")

\* C6 witness: an exception left the frontier loop, and crawl() raised it
\* with the context and the browser closed
C6_Witness ==
    /\ pc = "raised"
    /\ exc = "new_page failed"
    /\ context = "closed"
    /\ browser = "closed"

\* C7: a page is open only while its visit is in the try block: when the
\* visit is left by a return, by the except clause or by a cancellation, the
\* page has been closed.
C7_PageClosed ==
    /\ (page = "open" => pc \in TryStages)
    /\ (pc = "closing" => page = "closed")
    /\ (pc \in TryStages => page = "open")

\* C7 witness: the deadline fired during a visit and the page was closed
C7_Witness ==
    /\ timed_out
    /\ pc = "closing"
    /\ unwinding = "cancel"
    /\ page = "closed"

\* C8: no exception of page-level processing leaves the crawl: none of the
\* exceptions raised in opening a page, in a visit or in closing a page is
\* the exception crawl() ends with.
C8_NoPageExceptionEscapes ==
    exc \notin {"new_page failed", "page.close failed"}

\* C9: every PageResult with error set carries no elements and its visit
\* added nothing to the frontier; a page whose status is >= 400 has such a
\* result, with that status.
C9_ErrorPagesAddNothing ==
    \A i \in PageIndexes :
        /\ pages[i].error # NONE => pages[i].elements = <<>> /\ added[i] = 0
        /\ \A status_code \in pages[i].status_code :
             status_code >= 400 => pages[i].error = HttpError(status_code)

\* C10: check_robots_txt is called once, as the first step of crawl(), and
\* the frontier is seeded only after it allowed the crawl; when it disallows,
\* crawl() has returned the empty list with the status blocked_by_robots, the
\* frontier was never seeded, no browser launched and no page visited.
C10_RobotsBlock ==
    /\ calls.check_robots_txt = (IF pc = "crawl" THEN 0 ELSE 1)
    /\ (queue # <<>> \/ visited # {} \/ playwright # "none" => robots.allowed)
    /\ (pc # "crawl" /\ ~ robots.allowed
          => /\ pc = "done"
             /\ progress.status = "blocked_by_robots"
             /\ returned = << <<>> >>
             /\ pages = <<>> /\ queue = <<>> /\ visited = {}
             /\ playwright = "none" /\ browser = "none" /\ context = "none"
             /\ calls.launch = 0 /\ calls.new_page = 0)
    /\ (progress.status = "blocked_by_robots" => ~ robots.allowed)

\* C10 witness: robots.txt disallowed the seed and crawl() returned
C10_Witness ==
    /\ pc = "done"
    /\ robots = [ found |-> TRUE, allowed |-> FALSE ]
    /\ progress.status = "blocked_by_robots"

\* the robots.txt could not be had: a request error, a 404, another non-200
Unavailable(fetch) == fetch.kind = "request_error" \/ fetch.status_code # 200

\* C11: when the fetch of robots.txt ends in a request error, a 404 or any
\* other status than 200, check_robots_txt answers found = false and
\* allowed = true, whatever the path asked about and whatever the body, and
\* the crawl that asked is not blocked.
C11_UnavailableAllows ==
    /\ (call.fn = "check_robots_txt" /\ Unavailable(call.fetch)
          => call.out = [ found |-> FALSE, allowed |-> TRUE ])
    /\ (call.fn = "crawl" /\ Unavailable(call.fetch)
          => call.out = [ found |-> FALSE, allowed |-> TRUE ] /\ ~ call.blocked)

\* C11 witness: a 403 whose body disallows everything, asked about a path
\* under it, answered with found = false and allowed = true
C11_Witness ==
    /\ call.fn = "check_robots_txt"
    /\ call.fetch.status_code = 403
    /\ ~ is_allowed(call.fetch.disallow, call.path)
    /\ call.path = <<"/", "private", "/", "x">>
    /\ call.out = [ found |-> FALSE, allowed |-> TRUE ]

\* C12: for a robots.txt fetched with status 200, the allowed flag crawl()
\* gets is true exactly when the path of the seed URL is permitted.
C12_SeedPathDecides ==
    call.fn = "crawl" /\ ~ Unavailable(call.fetch)
        => call.out.allowed = is_allowed(call.fetch.disallow, path_of(call.url))

\* the awaits of a visit whose response passed the screening
LoadedStages == {"settle", "title", "consent", "extract", "links"}

\* the running visit is the first of the crawl whose page loaded
FirstLoadedVisit == first_load = Len(pages) + 1

\* C13: the Consent Resolver is invoked only in the visit of the first page
\* that loaded, and there before the extraction: that visit carries the
\* consent flag whatever the earlier PageResults are, reaches extraction
\* only with the resolver called, and no other visit carries the flag past
\* the loading or reaches the resolver.
C13_ConsentOnFirstLoad ==
    /\ (pc = "consent" => FirstLoadedVisit)
    /\ (pc \in {"settle", "title"} /\ FirstLoadedVisit => visit.handle_consent_banner)
    /\ (pc \in {"extract", "links"} /\ FirstLoadedVisit => calls.handle_consent = 1)
    /\ (pc \in LoadedStages /\ ~ FirstLoadedVisit => ~ visit.handle_consent_banner)
    /\ (calls.handle_consent > 0 => first_load > 0)
    /\ (\E i \in PageIndexes : pages[i].error = NONE) => calls.handle_consent = 1

\* C13 witness: the first visit loaded, had its consent handled and ended in
\* an error result; the second page loaded and is at its extraction without
\* the resolver having been called again
C13_Witness ==
    /\ Len(pages) = 1
    /\ pages[1].error # NONE
    /\ first_load = 1
    /\ pc = "extract"
    /\ ~ visit.handle_consent_banner
    /\ calls.handle_consent = 1

\* C14 as stated: a crawl that has visited a page has run the Consent
\* Resolver once.
C14_ExactlyOnce ==
    /\ calls.handle_consent <= 1
    /\ (Len(pages) >= 1 => calls.handle_consent = 1)

\* C14, amended: the Consent Resolver runs at most once per crawl and
\* consent_result, once set, is never overwritten; the resolver has run once
\* in every crawl that has a PageResult without error, and has not run when
\* no page loaded.
C14_AtMostOnce ==
    /\ [](calls.handle_consent <= 1)
    /\ [][ consent_result # <<>> => consent_result' = consent_result ]_vars
    /\ [](consent_result # <<>> => calls.handle_consent = 1)
    /\ []((\E i \in PageIndexes : pages[i].error = NONE)
            => calls.handle_consent = 1 /\ consent_result # <<>>)
    /\ [](first_load = 0 => calls.handle_consent = 0 /\ consent_result = <<>>)

\* C14 witness: three pages were visited after one run of the resolver
C14_Witness ==
    /\ Len(pages) = 3
    /\ \A i \in PageIndexes : pages[i].error = NONE
    /\ calls.handle_consent = 1
    /\ consent_result # <<>>

\* the priority order of the claim
PriorityOrder ==
    << "accept_selector", "accept_text", "close_selector", "close_text", "dom_bypass" >>

\* the action the claim gives the k-th strategy
PriorityAction(k) ==
    CASE k \in {1, 2} -> "accept_all"
      [] k \in {3, 4} -> "close"
      [] OTHER -> "bypass_css"

\* C15: with a banner visible, the strategies tried are the first k of the
\* priority order (accept selector, accept text, close selector, close text,
\* DOM bypass), each tried only after all before it failed; the cascade
\* stops at the first that works, and the action reported is that
\* strategy's: accept_all for the first two, close for the next two,
\* bypass_css for the fifth, failed when none works.
C15_CascadeOrder ==
    call.fn = "handle_consent" /\ call.has_banner =>
        LET tried == call.out.attempted
            n == Len(tried)
        IN  /\ call.out.detected
            /\ n \in 1..5
            /\ \A k \in 1..n : tried[k] = PriorityOrder[k]
            /\ \A k \in 1..(n - 1) : ~ call.works[PriorityOrder[k]]
            /\ IF \E k \in 1..5 : call.works[PriorityOrder[k]]
               THEN /\ call.works[PriorityOrder[n]]
                    /\ call.out.action = PriorityAction(n)
               ELSE /\ n = 5
                    /\ call.out.action = "failed"

\* C15 witness: both accept strategies failed, the close selector worked, the
\* two strategies after it would have worked too and were not tried
C15_Witness ==
    /\ call.fn = "handle_consent"
    /\ call.has_banner
    /\ call.works = [ accept_selector |-> FALSE, accept_text |-> FALSE,
                      close_selector |-> TRUE, close_text |-> TRUE,
                      dom_bypass |-> TRUE ]
    /\ call.out.attempted = << "accept_selector", "accept_text", "close_selector" >>
    /\ call.out.action = "close"

\* the phrases of the built-in table found in a text, as <<c, p>>: phrase p
\* of category c
PhrasesFound(text) ==
    { cp \in (1..Len(PHARMA_PATTERNS)) \X (1..8) :
        /\ cp[2] <= Len(PHARMA_PATTERNS[cp[1]].patterns)
        /\ IsSubstring(PHARMA_PATTERNS[cp[1]].patterns[cp[2]], lower_words(text)) }

\* declared order: categories first, phrases within a category second
Before(a, b) == a[1] < b[1] \/ (a[1] = b[1] /\ a[2] <= b[2])

\* "<category>:<phrase>"
Tagged(category, phrase) == << category, ":" >> \o phrase

\* C16: in built-in mode (tag name "Pharma", no keywords) a text that holds a
\* phrase of the table is classified as "<category>:<phrase>" for the first
\* phrase found, categories taken in declared order and phrases in declared
\* order within a category.
C16_BuiltinFirstPhrase ==
    (/\ call.fn = "detect_tag_context"
     /\ call.tag_name = "Pharma"
     /\ call.keywords = <<>>
     /\ PhrasesFound(call.text) # {})
        => LET first == CHOOSE a \in PhrasesFound(call.text) :
                            \A b \in PhrasesFound(call.text) : Before(a, b)
           IN  call.out = { Tagged(PHARMA_PATTERNS[first[1]].category,
                                   PHARMA_PATTERNS[first[1]].patterns[first[2]]) }

\* keyword k of a list is found in the text or in the URL, case ignored
KeywordFound(keywords, k, text, url) ==
    \/ IsSubstring(lower_words(keywords[k]), lower_words(text))
    \/ IsSubstring(lower_words(keywords[k]), lower_words(url))

\* C17: in custom mode (keywords supplied, any tag name) the answer is
\* "custom:<keyword>" for the first keyword of the caller's list that is
\* found in the text or the URL, whatever later keywords are found too.
C17_CustomFirstKeyword ==
    (/\ call.fn = "detect_tag_context"
     /\ call.keywords # <<>>
     /\ \E k \in 1..Len(call.keywords) :
           KeywordFound(call.keywords, k, call.text, call.url))
        => LET first == CHOOSE k \in 1..Len(call.keywords) :
                            /\ KeywordFound(call.keywords, k, call.text, call.url)
                            /\ \A j \in 1..(k - 1) :
                                 ~ KeywordFound(call.keywords, j, call.text, call.url)
           IN  call.out = { Tagged("custom", call.keywords[first]) }

\* a >= b on floats
float_ge(a, b) ==
    /\ a.kind # "nan" /\ b.kind # "nan"
    /\ \/ a.kind = "inf"
       \/ b.kind = "-inf"
       \/ (a.kind = "finite" /\ b.kind = "finite" /\ a.hundredths >= b.hundredths)

\* C18: every rate_limit below 0.5 gives a configured rate limit of exactly
\* 0.5, every rate_limit of 0.5 or more is kept, and the rate limit of every
\* ScanConfig that was built is at least 0.5.
C18_RateFloor ==
    call.fn = "ScanConfig" =>
        /\ (call.field = "rate_limit" /\ float_lt(call.given, Float(50))
              => call.out.rate_limit = Float(50))
        /\ (call.field = "rate_limit" /\ float_ge(call.given, Float(50))
              => call.out.rate_limit = call.given)
        /\ float_ge(call.out.rate_limit, Float(50))

\* the claim's clamp of v to lo..hi
Clamped(v, lo, hi) == IF v > hi THEN hi ELSE IF v < lo THEN lo ELSE v

\* C19: the configured max_pages is the given integer clamped to 1..1000 and
\* the configured max_depth the given integer clamped to 1..20; a configured
\* value given again is configured unchanged.
C19_Clamps ==
    call.fn = "ScanConfig" =>
        /\ (call.field = "max_pages" => call.out.max_pages = Clamped(call.given, 1, 1000))
        /\ (call.field = "max_depth" => call.out.max_depth = Clamped(call.given, 1, 20))
        /\ call.out.max_pages \in 1..1000
        /\ call.out.max_depth \in 1..20
        /\ clamp_max_pages(call.out.max_pages) = call.out.max_pages
        /\ clamp_max_depth(call.out.max_depth) = call.out.max_depth

\* C19 witness: a max_pages below 1 was raised to 1
C19_Witness ==
    /\ call.fn = "ScanConfig"
    /\ call.field = "max_pages"
    /\ call.given < 0
    /\ call.out.max_pages = 1

\* the declared order of the frameworks
DeclaredOrder ==
    << "GTM", "Adobe Launch", "Tealium", "Segment", "GA4", "Adobe Analytics", "Hotjar" >>

\* the place of a name in the declared order
DeclaredAt(name) == CHOOSE i \in 1..Len(DeclaredOrder) : DeclaredOrder[i] = name

\* C20: detect_analytics raises nothing; it answers [] when the probe raised
\* or gave nothing, and otherwise the probe's list itself, whose names come
\* from the seven frameworks, in the declared order and each at most once.
C20_AnalyticsNeverThrows ==
    call.fn = "detect_analytics" =>
        /\ ~ call.out.raised
        /\ (call.probe.kind \in {"raises", "none"} => call.out.value = <<>>)
        /\ (call.probe.kind = "list" => call.out.value = call.probe.value)
        /\ \A i \in 1..Len(call.out.value) :
             \E k \in 1..Len(DeclaredOrder) : call.out.value[i] = DeclaredOrder[k]
        /\ \A i, j \in 1..Len(call.out.value) :
             i < j => DeclaredAt(call.out.value[i]) < DeclaredAt(call.out.value[j])

\* C20 witness: the probe raised and the answer is the empty list
C20_Witness ==
    /\ call.fn = "detect_analytics"
    /\ call.probe.kind = "raises"
    /\ call.out = [ raised |-> FALSE, value |-> <<>> ]

\* C21: the elements emitted for one page hold no two records with the same
\* (element type, selector); every (type, selector) of a visible candidate
\* is emitted once, and the record emitted for it is that of the first
\* visible candidate offered with it.
C21_OnePerTypeAndSelector ==
    call.fn = "extract_elements" /\ ~ call.raises =>
        LET out == call.out
            cands == call.candidates
            Same(a, b) == /\ a.element_type = b.element_type
                          /\ a.css_selector = b.css_selector
        IN  /\ \A i, j \in 1..Len(out) : Same(out[i], out[j]) => i = j
            /\ \A k \in 1..Len(cands) :
                 cands[k].visible => \E i \in 1..Len(out) : Same(out[i], cands[k])
            /\ \A i \in 1..Len(out) :
                 /\ out[i].offered \in 1..Len(cands)
                 /\ Same(out[i], cands[out[i].offered])
                 /\ cands[out[i].offered].visible
                 /\ \A k \in 1..(out[i].offered - 1) :
                      Same(cands[k], out[i]) => ~ cands[k].visible
            /\ \A i, j \in 1..Len(out) : i < j => out[i].offered < out[j].offered

\* C21 witness: three visible candidates, the first and the third with the
\* same type and selector, gave two records
C21_Witness ==
    /\ call.fn = "extract_elements"
    /\ ~ call.raises
    /\ Len(call.candidates) = 3
    /\ \A k \in 1..3 : call.candidates[k].visible
    /\ call.candidates[1] = call.candidates[3]
    /\ call.candidates[1].css_selector = call.candidates[2].css_selector
    /\ call.candidates[1].element_type # call.candidates[2].element_type
    /\ Len(call.out) = 2
    /\ call.out[1].offered = 1
    /\ call.out[2].offered = 2

\* every visit that was started has its PageResult
LastVisitFinished == Cardinality(visited) = Len(pages)

\* the loop would visit nothing more: the cap is reached, or every entry of
\* the frontier is visited already or too deep
NothingMoreToVisit ==
    \/ Len(pages) >= config.max_pages
    \/ \A i \in 1..Len(queue) :
         \/ \E v \in visited : Equivalent(v, queue[i][1])
         \/ queue[i][2] > config.max_depth

\* C22: a crawl that was not blocked and has returned is completed exactly
\* when its loop ended on an empty frontier or on the page cap, and timeout
\* exactly when the deadline fired; and a crawl whose visits all finished
\* and that has nothing more to visit is completed.
C22_StatusByCause ==
    pc = "done" /\ robots.allowed =>
        /\ progress.status = "timeout" <=> timed_out
        /\ progress.status = "completed" <=> ~ timed_out
        /\ (~ timed_out => queue = <<>> \/ Len(pages) >= config.max_pages)
        /\ (LastVisitFinished /\ NothingMoreToVisit => progress.status = "completed")

\* C23: at most one page is open at any moment: the pages opened are at most
\* one more than the pages closed; and a visit starts only when every earlier
\* visit has returned its PageResult to the loop and no page is open.
C23_OneVisitAtATime ==
    /\ calls.new_page - calls.close_page \in {0, 1}
    /\ (page = "open" => calls.new_page = calls.close_page + 1)
    /\ (pc = "new_page"
          => /\ page # "open"
             /\ calls.close_page = calls.new_page
             /\ unwinding = "none" /\ result = <<>>
             /\ Len(pages) = calls.new_page)

\* C23 witness: the third visit is starting; two pages were opened, closed
\* and recorded
C23_Witness ==
    /\ pc = "new_page"
    /\ calls.new_page = 2
    /\ calls.close_page = 2
    /\ Len(pages) = 2
    /\ page = "closed"

\* C24: two CrawlEngine instances crawling side by side on one event loop, their
\* tasks interleaved at every await, each go through the states a crawl of the
\* same site goes through when it runs alone, and each ends with the visited
\* set, frontier, pages, consent result and status of the crawl that ran alone.
C24_IndependentCrawls ==
    \A e \in Engines :
        /\ [ self |-> engines.self[e], task |-> engines.task[e] ] \in AloneStates
        /\ (engines.task[e].pc = "done" => engines.self[e] = AloneEnd.self)

\* both engines are in the middle of a visit, of different pages, and one has
\* recorded a page the other has not
C24_Witness ==
    /\ engines.task[1].pc = "links" /\ engines.task[1].url = normalize_url(SeedUrl)
    /\ engines.task[2].pc = "closing" /\ engines.task[2].url = <<Origin, "/", "p">>
    /\ Len(engines.self[1].pages) = 0 /\ Len(engines.self[2].pages) = 1

\* the stages of a visit, from the call of _visit_page to its return
VisitStages == {"new_page", "goto", "settle", "title", "consent", "extract", "links",
                "closing"}

\* C25: every recorded page visit is followed by one asyncio.sleep(delay) that
\* is over before the loop dequeues again, so a visit never starts while an
\* earlier visit's sleep is outstanding; dequeuing an entry that is skipped as
\* already visited or too deep sleeps not at all, so the sleeps completed never
\* outnumber the pages recorded.
C25_DelayAfterEveryVisit ==
    /\ calls.sleep <= Len(pages)
    /\ Len(pages) <= calls.sleep + 1
    /\ (pc \in VisitStages \cup {"loop"} => calls.sleep = Len(pages))
    /\ (pc = "sleep" => calls.sleep + 1 = Len(pages))

\* three entries were dequeued, the third one skipped as already visited, and
\* two sleeps have been completed, one for each of the two visits
C25_Witness ==
    /\ pc = "loop" /\ queue = <<>> /\ Len(pages) = 2 /\ Cardinality(visited) = 2
    /\ added[1] = 2 /\ config.max_pages > 2 /\ calls.sleep = 2

\* the URL has no fragment and no trailing slash
IsNormalized(url) == FragmentAt(url) = 0 /\ (Len(url) = 0 \/ url[Len(url)] # "/")

\* the lower-cased path of the URL ends in one of the skip extensions
EndsInSkipExtension(url) ==
    LET p == path_of(url) IN
    \E ext \in skip_extensions : Len(p) > 0 /\ lower(p[Len(p)]) = ext

\* C26: every entry the link loop of a visit puts on the frontier is the
\* normalized form of one of the page's links, has the host of the seed and
\* the scheme http or https, has a lower-cased path that ends in none of the
\* skip extensions, and was not in the visited set when it was enqueued.
C26_EnqueueFilter ==
    call.fn = "enqueue_links" =>
        \A i \in 1..Len(call.out.queue) :
            LET url == call.out.queue[i][1] IN
            /\ IsNormalized(url)
            /\ \E j \in 1..Len(call.links) : url = normalize_url(call.links[j])
            /\ netloc_of(url) = netloc_of(SeedUrl)
            /\ scheme_of(url) \in {"http", "https"}
            /\ ~ EndsInSkipExtension(url)
            /\ url \notin call.seen

\* a page offers a document in upper case with a fragment and a page of the
\* site with a trailing slash: the page alone is enqueued
C26_Witness ==
    /\ call.fn = "enqueue_links"
    /\ call.links = << <<Origin, "/", "f", ".PDF", "#", "f">>, <<Origin, "/", "p", "/">> >>
    /\ call.seen = { normalize_url(SeedUrl) }
    /\ call.depth = 0
    /\ call.out.queue = << << <<Origin, "/", "p">>, 1 >> >>

\* C27: every frontier entry has a depth in 0..max_depth; the entries a visit
\* has just added lie one below the page visited, which lies above the limit;
\* and a recorded page that added entries lies above the limit, so a page
\* visited at max_depth added nothing.
C27_LinksBelowLimit ==
    /\ \A i \in 1..Len(queue) : queue[i][2] \in 0..config.max_depth
    /\ (pc = "closing" /\ visit.added > 0
          => /\ visit.depth < config.max_depth
             /\ visit.added <= Len(queue)
             /\ \A i \in (Len(queue) - visit.added + 1)..Len(queue) :
                    queue[i][2] = visit.depth + 1)
    /\ \A i \in PageIndexes :
          /\ (added[i] > 0 => pages[i].depth < config.max_depth)
          /\ (pages[i].depth = config.max_depth => added[i] = 0)

\* the seed added two entries one level down; the page visited next lies at
\* the limit, was extracted and added nothing
C27_Witness ==
    /\ Len(pages) = 2
    /\ pages[1].depth = 0 /\ added[1] = 2
    /\ pages[2].depth = config.max_depth /\ pages[2].error = NONE
    /\ Len(pages[2].elements) > 0 /\ added[2] = 0
    /\ Len(queue) = 1 /\ queue[1][2] = 1

C29_OffDomainRedirect ==
    /\ \A status_code \in StatusCodes, content_type \in ContentTypes :
          ~ is_error_status(status_code)
             => screen_response(status_code, content_type, OffDomainUrl) = "off_domain"
    /\ (visit.screened = "off_domain"
          => /\ pc = "closing" /\ unwinding = "return"
             /\ visit.ran = {} /\ visit.added = 0 /\ visit.elements = <<>>
             /\ Len(result) = 1
             /\ result[1].error = "Redirected off-domain to https://b.org/"
             /\ result[1].elements = <<>> /\ result[1].url = visit.url)
    /\ \A i \in PageIndexes :
          pages[i].error = RedirectError(OffDomainUrl)
             => pages[i].elements = <<>> /\ added[i] = 0

\* the seed was extracted and added two entries; the second page answered 200
\* from the other domain and is recorded as an error, the frontier as it was
C29_Witness ==
    /\ Len(pages) = 2 /\ pc = "sleep"
    /\ pages[1].error = NONE /\ added[1] = 2
    /\ pages[2].error = "Redirected off-domain to https://b.org/"
    /\ pages[2].status_code = {200}
    /\ Len(queue) = 1 /\ calls.handle_consent = 1

\* C30: of the responses that passed the status and the domain test, those
\* with a content type that is present and does not hold "html" in any case
\* are screened as non-HTML, and those with no content type or one that
\* holds "html" pass.  A visit screened as non-HTML returns an error result
\* with no elements and adds nothing to the frontier, no later stage having
\* run; a visit that passed goes on through the later stages, and ends
\* without extract_elements having run only by an exception or a cancellation.
C30_ContentType ==
    /\ \A content_type \in ContentTypes :
          screen_response(200, content_type, SeedUrl) =
              IF content_type = "application/pdf" THEN "non_html" ELSE "pass"
    /\ (visit.screened = "non_html"
          => /\ pc = "closing" /\ unwinding = "return"
             /\ visit.ran = {} /\ visit.added = 0 /\ visit.elements = <<>>
             /\ Len(result) = 1
             /\ result[1].error = "Non-HTML content: application/pdf"
             /\ result[1].elements = <<>>)
    /\ \A i \in PageIndexes :
          pages[i].error = "Non-HTML content: application/pdf"
             => pages[i].elements = <<>> /\ added[i] = 0
    /\ (visit.screened = "pass"
          => /\ pc \in {"settle", "title", "consent", "extract", "links", "closing"}
             /\ (pc = "closing" /\ "extract_elements" \notin visit.ran
                   => \/ unwinding = "cancel"
                      \/ result[1].error = ExceptionMessage))

\* the seed was extracted and added two entries; the second page is a PDF and
\* is recorded as an error; the third visit passed the screening and its
\* elements have been extracted
C30_Witness ==
    /\ Len(pages) = 2
    /\ pages[1].error = NONE /\ added[1] = 2
    /\ pages[2].error = "Non-HTML content: application/pdf" /\ added[2] = 0
    /\ visit.screened = "pass" /\ pc = "closing" /\ visit.ran = {"extract_elements"}
    /\ Len(visit.elements) = 1

\* C31: when no banner is visible handle_consent answers detected = False and
\* action = "none" after the visibility probe alone: detect_framework and the
\* five strategies are not called, nothing on the page is clicked or removed
\* and the overflow styles stay as the site served them, whatever the
\* strategies would have met.
C31_NoBannerNoEffect ==
    call.fn = "handle_consent" /\ ~ call.has_banner =>
        /\ call.out.detected = FALSE
        /\ call.out.action = "none"
        /\ call.called = << "_has_visible_consent_banner" >>
        /\ call.out.attempted = <<>>
        /\ call.page = [ clicked |-> {}, removed |-> 0, overflow |-> "as_served" ]

\* no banner is visible on a page where the accept button could be clicked and
\* the bypass would find an overlay to remove
C31_Witness ==
    /\ call.fn = "handle_consent" /\ ~ call.has_banner
    /\ call.clicks["accept_selector"] = "clicked"
    /\ call.bypass = [ removed |-> 1, raises |-> "no" ]
    /\ call.out.action = "none"

\* C32: with a banner visible, when no click helper answers True and the DOM
\* bypass removes nothing or raises, the result is detected = True and
\* action = "failed" with the note that all strategies are exhausted;
\* bypass_css is answered only when the bypass removed at least one element;
\* and a helper that raises is a helper that failed: every strategy after it
\* is still tried and handle_consent answers a ConsentResult.
C32_FailedAndBypass ==
    call.fn = "handle_consent" /\ call.has_banner =>
        /\ call.out.detected
        /\ call.out.action \in {"accept_all", "close", "bypass_css", "failed"}
        /\ ((\A s \in ClickStrategies : call.clicks[s] # "clicked")
               /\ (call.bypass.removed = 0 \/ call.bypass.raises # "no")
              => /\ call.out.action = "failed"
                 /\ call.notes = "All dismissal strategies exhausted"
                 /\ Len(call.out.attempted) = 5)
        /\ (call.out.action = "bypass_css"
              => /\ call.bypass.removed >= 1 /\ call.page.removed >= 1
                 /\ \A s \in ClickStrategies : call.clicks[s] # "clicked")
        /\ \A k \in 1..Len(call.out.attempted) :
              LET s == call.out.attempted[k] IN
              (IF s = "dom_bypass" THEN call.bypass.raises # "no"
               ELSE call.clicks[s] \in {"click_raises", "wait_raises"})
                 => /\ ~ call.works[s]
                    /\ (k < 5 => Len(call.out.attempted) > k)

\* every click raises and the bypass evaluation raises before it touched the
\* page: five strategies were tried and the answer is failed
C32_Witness ==
    /\ call.fn = "handle_consent" /\ call.has_banner
    /\ \A s \in ClickStrategies : call.clicks[s] = "click_raises"
    /\ call.bypass = [ removed |-> 0, raises |-> "at_start" ]
    /\ call.out.action = "failed" /\ Len(call.out.attempted) = 5
    /\ call.notes = "All dismissal strategies exhausted"

\* C33: whenever extract_elements has run in a visit and the visit has gone on
\* to the link stage or to its end, detect_analytics has run in it too.
C33_AnalyticsAfterExtraction ==
    pc \in {"links", "closing"} /\ "extract_elements" \in visit.ran
        => "detect_analytics" \in visit.ran

\* C38: when the crawl returned, the scan_quality of the scans row is
\* blocked_by_consent exactly when the ConsentResult's action is failed,
\* partial_consent exactly when it is bypass_css, and clean otherwise, also
\* when there is no ConsentResult.
C38_QualityFromConsent ==
    call.fn = "run_scan" /\ ~ call.crawl.raises =>
        LET cr == call.crawl.consent_result
            action == IF cr = <<>> THEN "none" ELSE cr[1].action
        IN  /\ call.out.scan_quality = "blocked_by_consent" <=> action = "failed"
            /\ call.out.scan_quality = "partial_consent" <=> action = "bypass_css"
            /\ call.out.scan_quality = "clean" <=> action \notin {"failed", "bypass_css"}

\* C39: the scan_status of the row goes pending, running, final; final is the
\* engine's status whenever the crawl returned, and failed only when the
\* crawl raised.
C39_StatusPersisted ==
    call.fn = "run_scan" =>
        /\ Len(call.out.scan_status) = 3
        /\ call.out.scan_status[1] = "pending" /\ call.out.scan_status[2] = "running"
        /\ (~ call.crawl.raises => call.out.scan_status[3] = call.crawl.status)
        /\ (call.out.scan_status[3] = "failed" => call.crawl.raises)

\* the URL, in lower case, holds the word
UrlHolds(url, word) == IsSubstring(word, lower_words(url))

UrlNamesPrescribing(url) == UrlHolds(url, << "prescribing" >>) \/ UrlHolds(url, << "/", "pi" >>)
UrlNamesMedGuide(url) == UrlHolds(url, << "medguide" >>) \/ UrlHolds(url, << "medication-guide" >>)

\* C34: in built-in mode a text that holds no phrase of the table is classified
\* by the URL: "isi:prescribing information" when the URL holds "prescribing"
\* or "/pi", "isi:medication guide" when it holds "medguide" or
\* "medication-guide"; a text that holds a phrase is never classified by the URL.
C34_UrlLabels ==
    (/\ call.fn = "detect_tag_context"
     /\ call.tag_name = "Pharma" /\ call.keywords = <<>>
     /\ call.text # <<>>)
        => IF PhrasesFound(call.text) = {}
           THEN /\ (UrlNamesPrescribing(call.url)
                      => call.out = { Tagged("isi", << "prescribing", "information" >>) })
                /\ (UrlNamesMedGuide(call.url) /\ ~ UrlNamesPrescribing(call.url)
                      => call.out = { Tagged("isi", << "medication", "guide" >>) })
           ELSE call.out = detect_pharma_builtin(call.text, <<>>)

\* no keyword of the list is found in the text or the URL
NoKeywordFound(keywords, text, url) ==
    \A k \in 1..Len(keywords) : ~ KeywordFound(keywords, k, text, url)

\* C35: the answer is none in built-in mode for an absent text with no URL
\* and for a text and a URL that match no phrase and no URL word, and in
\* custom mode for an absent text with no URL and for a text and a URL that
\* hold none of the keywords.
C35_NoneWhenNothingMatches ==
    call.fn = "detect_tag_context" =>
        /\ (call.tag_name = "Pharma" /\ call.keywords = <<>>
              /\ (\/ call.text = <<>> /\ call.url = <<>>
                  \/ /\ PhrasesFound(call.text) = {}
                     /\ ~ UrlNamesPrescribing(call.url) /\ ~ UrlNamesMedGuide(call.url))
              => call.out = {})
        /\ (call.keywords # <<>>
              /\ (\/ call.text = <<>> /\ call.url = <<>>
                  \/ NoKeywordFound(call.keywords, call.text, call.url))
              => call.out = {})

\* a text with no phrase and a URL with none of the URL words, in built-in mode
C35_Witness ==
    /\ call.fn = "detect_tag_context"
    /\ call.tag_name = "Pharma" /\ call.keywords = <<>>
    /\ call.text = << "Click", "here" >>
    /\ call.url = << "https://example.com", "/", "privacy", "notice" >>
    /\ call.out = {}

\* the categories of the built-in table
BuiltinCategories == { PHARMA_PATTERNS[c].category : c \in 1..Len(PHARMA_PATTERNS) }

\* C36: with a non-empty keyword list the answer is none or a keyword of the
\* list that is found in the text or the URL, whatever the tag name and
\* whatever built-in phrase the text holds; with no keywords and a tag name
\* other than "Pharma" the answer is none; so a built-in category is answered
\* only for the tag name "Pharma" with no keywords.
C36_ModesExclusive ==
    call.fn = "detect_tag_context" =>
        /\ (call.keywords # <<>>
              => \/ call.out = {}
                 \/ \E k \in 1..Len(call.keywords) :
                       /\ call.out = { call.keywords[k] }
                       /\ KeywordFound(call.keywords, k, call.text, call.url))
        /\ (call.keywords = <<>> /\ call.tag_name # "Pharma" => call.out = {})
        /\ ((\E c \in BuiltinCategories : call.out = { << c >> })
              => call.tag_name = "Pharma" /\ call.keywords = <<>>)

\* the tag name is "Pharma" and the text holds a built-in phrase, but keywords
\* are supplied and none is found: the answer is none
C36_Witness ==
    /\ call.fn = "detect_tag_context"
    /\ call.tag_name = "Pharma"
    /\ call.keywords = << << "cookie", "policy" >> >>
    /\ call.text = << "View", "Important", "Safety", "Information" >>
    /\ call.out = {}

\* C37: when the page itself can be evaluated, every visible candidate whose
\* (type, selector) no failing candidate shares is emitted, whether or not
\* the record of another candidate failed; and when the page cannot be
\* evaluated the answer is the empty list.
C37_ElementErrorsSkipped ==
    call.fn = "extract_elements" =>
        /\ (~ call.page_fails
              => \A k \in 1..Len(call.candidates) :
                   LET el == call.candidates[k] IN
                   (/\ el.visible
                    /\ \A j \in 1..Len(call.candidates) :
                          (/\ call.candidates[j].element_type = el.element_type
                           /\ call.candidates[j].css_selector = el.css_selector)
                             => ~ call.candidates[j].throws)
                     => \E i \in 1..Len(call.out) :
                          /\ call.out[i].element_type = el.element_type
                          /\ call.out[i].css_selector = el.css_selector)
        /\ (call.page_fails => call.out = <<>>)

\* the tasks of a scan that are not done
LiveTasks(scan_id) ==
    { t \in DOMAIN classify.tasks :
        classify.tasks[t].scan_id = scan_id /\ classify.tasks[t].pc # "done" }

C40_OneLive ==
    \A s \in ScanIds :
        /\ Cardinality(LiveTasks(s)) <= 1
        /\ \A t \in LiveTasks(s) : classify.running_tasks[s] = << t >>

\* a request for s passes the checks of the scan row in this step
C40_Answers(s) ==
    /\ s \in classify.requests
    /\ classify'.requests = classify.requests \ {s}
    /\ classify'.response.scan_id = s
    /\ classify'.response.status \in {"started", "already_running"}

C40_StartStep ==
    \A s \in ScanIds :
        (C40_Answers(s) /\ LiveTasks(s) # {})
            => /\ classify'.response.status = "already_running"
               /\ classify'.tasks = classify.tasks
               /\ classify'.running_tasks = classify.running_tasks

C40_CleanupStep ==
    \A t \in DOMAIN classify.tasks :
        (classify.tasks[t].pc = "closing" /\ classify'.tasks[t].pc = "done")
            => \A s \in ScanIds :
                 classify'.running_tasks[s] # classify.running_tasks[s]
                    => /\ classify.running_tasks[s] = << t >>
                       /\ classify.tasks[t].scan_id = s

\* C40: a scan never has two tasks that are not done, and the task that is
\* not done is the registered one; a start request answered while a task of
\* its scan is not done gets already_running and changes neither the tasks
\* nor the registry; and a finishing task changes no registry entry but its
\* own.
C40_OneTaskPerScan ==
    []C40_OneLive /\ [][C40_StartStep /\ C40_CleanupStep]_vars

\* C40 witness: the first task of a scan completed and popped its entry, a
\* second task of the same scan was then started and is still running, and
\* the request that came after it was answered already_running
C40_Witness ==
    /\ Len(classify.tasks) >= 2
    /\ classify.tasks[1].pc = "done" /\ classify.tasks[1].leaving = "completed"
    /\ classify.tasks[2].scan_id = classify.tasks[1].scan_id
    /\ classify.tasks[2].pc = "batch"
    /\ classify.running_tasks[classify.tasks[1].scan_id] = << 2 >>
    /\ classify.response.status = "already_running"
    /\ classify.response.scan_id = classify.tasks[1].scan_id

====
